---- MODULE Spec2Model ----
(***************************************************************************)
(* Meeting negotiation between calendar-holding agents (bob, alice,        *)
(* charlie): the persistent two-party negotiation loop of src/test.py and  *)
(* the slot searches of src/api.py and src/backend_agents/api.py, over the *)
(* calendar_blocks table of @agent2_alice/database.py.                     *)
(*                                                                         *)
(* Time is an integer: minutes since 2025-09-27 00:00 (a Saturday), the    *)
(* base date of create_meeting_request and the first valid date of         *)
(* validate_input.                                                         *)
(***************************************************************************)
EXTENDS Integers, Sequences, FiniteSets, TLC

VARIABLES
    calendar_blocks,    \* rows of the calendar_blocks table
    connection,         \* db_manager.connection is usable (not None, queries do not raise)
    meeting_requests,   \* rows of the meeting_requests table written by Meeting Commit
    pc,                 \* position of run_persistent_negotiation
    meeting_request,    \* self.meeting_request: {} (None) or {[duration_minutes, preferred_start_time]}
    round_num,          \* round_num of the for loop (0 before the loop)
    current_proposal,   \* current_proposal: {} before the loop, {t} afterwards
    current_negotiator, \* current_negotiator: who evaluates next
    negotiation_log,    \* self.negotiation_log
    scheduled_meeting,  \* self.scheduled_meeting: {} (None) or {t}
    outcome,            \* terminal outcome of the run
    returned,           \* value returned by run_persistent_negotiation
    evaluations,        \* number of alice_negotiates / bob_negotiates calls made
    response,           \* alice_response / bob_response of the last round, with the time it answers

    api_module,         \* which API module serves the request
    now,                \* datetime.now() when the request is served
    request,            \* the MeetingRequest of the API call
    spc,                \* position of the endpoint handler
    available_slots,    \* the list returned by find_available_slots
    endpoint,           \* the endpoint called: "negotiate" or "schedule"
    slot_index,         \* the slot_index parameter of the schedule endpoint
    http_response,      \* what the caller receives: status code, success flag, message
    calendar_queries,   \* check_time_conflict calls made for the request
    commit_result,      \* (success, meeting_id) returned by APINegotiation.schedule_meeting
    meeting_participants, \* rows of the meeting_participants table
    api_commits,        \* the calendar blocks inserted by schedule_meeting calls, in order

    engine,             \* the decision engine: class, personality, priority_threshold
    agent_calendar,     \* the calendar_blocks list the engine evaluates against
    proposal,           \* proposal.proposed_time: {} (none) or {t}
    evaluation,         \* the dictionary returned by evaluate_time_proposal

    score_call,         \* the arguments of a calculate_slot_quality call, for two slots
    quality_score,      \* what the copies of calculate_slot_quality returned

    mailbox,            \* messages sent with ctx.send and not handled yet, oldest first
    handled,            \* the messages the handlers were run for, each with what was sent in reply

    conflict_check,     \* a check_time_conflict call of Charlie's calendar service and its rows

    active_connections, \* ConnectionManager.active_connections
    closed_connections, \* the websockets whose send_text raises
    broadcast_call      \* the broadcast in progress: its iterator and the sends it made

negVars == <<pc, meeting_request, round_num, current_proposal, current_negotiator,
             negotiation_log, scheduled_meeting, outcome, returned, evaluations,
             response>>
dbVars == <<calendar_blocks, connection, meeting_requests>>
searchVars == <<api_module, now, request, spc, available_slots, endpoint, slot_index,
                http_response, calendar_queries, commit_result, meeting_participants,
                api_commits>>
decVars == <<engine, agent_calendar, proposal, evaluation>>
scoreVars == <<score_call, quality_score>>
serviceVars == <<mailbox, handled, conflict_check, active_connections, closed_connections,
                 broadcast_call>>
vars == <<calendar_blocks, connection, meeting_requests, pc, meeting_request,
          round_num, current_proposal, current_negotiator, negotiation_log,
          scheduled_meeting, outcome, returned, evaluations, response,
          api_module, now, request, spc, available_slots, endpoint, slot_index,
          http_response, calendar_queries, commit_result, meeting_participants,
          api_commits, engine, agent_calendar, proposal, evaluation,
          score_call, quality_score, mailbox, handled, conflict_check,
          active_connections, closed_connections, broadcast_call>>

-----------------------------------------------------------------------------
(* datetime arithmetic *)

MinutesPerDay == 1440

\* datetime(day, hour, minute)
At(day, hour, minute) == day * MinutesPerDay + hour * 60 + minute

DayOf(t) == t \div MinutesPerDay
HourOf(t) == (t % MinutesPerDay) \div 60
MinuteOf(t) == t % 60

\* datetime.now().date() as a day number
today == DayOf(now)

\* datetime.weekday(): Monday = 0; day 0 is Saturday 2025-09-27
Weekday(t) == (DayOf(t) + 5) % 7

\* the least element of a non-empty set of integers
SetMin(S) == CHOOSE x \in S : \A y \in S : x <= y
SetMax(S) == CHOOSE x \in S : \A y \in S : y <= x

-----------------------------------------------------------------------------
(* the calendar store: @agent2_alice/database.py *)

Row(user, start, end, type, priority, moveable) ==
    [user_id |-> user, start_time |-> start, end_time |-> end,
     block_type |-> type, priority |-> priority, is_moveable |-> moveable]

\* DatabaseManager.execute_query: no connection, or a query that raises, yields []
execute_query(rows) == IF connection THEN rows ELSE {}

\* a query that forgets the user_id condition
check_time_conflict_any_user(user_id, start_time, end_time) ==
    execute_query({b \in calendar_blocks :
                      b.start_time < end_time /\ b.end_time > start_time})

\* a query that counts a block that only touches the interval
check_time_conflict_touching(user_id, start_time, end_time) ==
    execute_query({b \in calendar_blocks :
                      /\ b.user_id = user_id
                      /\ b.start_time <= end_time
                      /\ b.end_time >= start_time})

\* CalendarService.check_time_conflict: the rows of user_id that overlap [start, end)
check_time_conflict(user_id, start_time, end_time) ==
    execute_query({b \in calendar_blocks :
                      /\ b.user_id = user_id
                      /\ b.start_time < end_time
                      /\ b.end_time > start_time})

\* CalendarService.add_calendar_block through DatabaseManager.execute_command:
\* the table after the INSERT (unchanged without a connection)
add_calendar_block(table, user_id, start_time, end_time, block_type, priority, is_moveable) ==
    IF connection
    THEN table \cup {Row(user_id, start_time, end_time, block_type, priority, is_moveable)}
    ELSE table

-----------------------------------------------------------------------------
(* the Conflict Classifier: the decision engines' _check_time_conflicts *)

\* self.priority_threshold of the party's engine (charlie: DEFAULT_PRIORITY_LEVEL)
priority_threshold(user_id) ==
    IF user_id = "alice" THEN 7 ELSE IF user_id = "charlie" THEN 6 ELSE 5

\* the first two branches of _check_time_conflicts: protected focus time, fixed meeting
is_hard_conflict(block, threshold) ==
    \/ block.block_type = "focus_time" /\ block.priority > threshold
    \/ block.block_type = "busy" /\ ~block.is_moveable

\* the third branch: a flexible block
is_soft_conflict(block) == block.block_type = "flexible"

\* _determine_acceptability: the number of conflicts collaborative bob and
\* focused alice still accept
conflict_tolerance(user_id) == 1

\* the rows of the party's calendar that overlap [start_time, end_time),
\* whatever the state of the connection
overlapping_blocks(user_id, start_time, end_time) ==
    {b \in calendar_blocks :
        b.user_id = user_id /\ b.start_time < end_time /\ b.end_time > start_time}

hard_conflicts(user_id, start_time, end_time) ==
    {b \in overlapping_blocks(user_id, start_time, end_time) :
        is_hard_conflict(b, priority_threshold(user_id))}

soft_conflicts(user_id, start_time, end_time) ==
    {b \in overlapping_blocks(user_id, start_time, end_time) : is_soft_conflict(b)}

-----------------------------------------------------------------------------
(* the persistent negotiation: src/test.py, class PersistentNegotiation *)

max_rounds == 20

\* the number of days find_available_time looks ahead (search_end = search_start + 7 days)
LookAheadDays == 7

\* the third column of meeting_types
meeting_durations == {15, 30, 60, 90, 45, 75, 120}
hour_options == 9 .. 17
day_offsets == 0 .. 7

\* PersistentNegotiation.calculate_slot_quality
slot_quality(time_slot) ==
    (IF 9 <= HourOf(time_slot) /\ HourOf(time_slot) <= 11 THEN 10
     ELSE IF 14 <= HourOf(time_slot) /\ HourOf(time_slot) <= 16 THEN 8
     ELSE IF 8 <= HourOf(time_slot) /\ HourOf(time_slot) <= 9 THEN 6
     ELSE IF 16 <= HourOf(time_slot) /\ HourOf(time_slot) <= 17 THEN 4
     ELSE 0)
    + (IF MinuteOf(time_slot) = 0 THEN 5
       ELSE IF MinuteOf(time_slot) = 30 THEN 3
       ELSE 0)
    + (IF Weekday(time_slot) < 5 THEN 2 ELSE 0)

\* a look-ahead that runs one day too far
search_days_one_more(start_date, end_date) ==
    DayOf(start_date) .. (DayOf(end_date) + 1)

\* the days the while loop of find_available_time visits: current_date starts at
\* start_date and advances by one day while current_date <= end_date
search_days(start_date, end_date) ==
    {DayOf(start_date) + j :
        j \in {k \in 0 .. (DayOf(end_date) - DayOf(start_date)) :
                  start_date + k * MinutesPerDay <= end_date}}

\* the test_start values find_available_time checks: on every such day, hours
\* 8..17, quarter hours, skipping the ones whose end has hour >= 18
search_candidates(duration_minutes, start_date, end_date) ==
    {ts \in {At(day, hour, minute_offset) :
                day \in search_days(start_date, end_date),
                hour \in 8 .. 17,
                minute_offset \in {0, 15, 30, 45}} :
        ~(HourOf(ts + duration_minutes) >= 18)}

\* the starts appended to best_slots: the candidates with no conflict
best_slots(user_id, duration_minutes, start_date, end_date) ==
    {ts \in search_candidates(duration_minutes, start_date, end_date) :
        check_time_conflict(user_id, ts, ts + duration_minutes) = {}}

\* the first element of best_slots after the stable sort by quality,
\* descending: the earliest of the slots of the highest quality
first_after_sort(slots) ==
    {SetMin({ts \in slots : slot_quality(ts) = top}) :
        top \in {SetMax({slot_quality(ts) : ts \in slots})}}

\* PersistentNegotiation.find_available_time: {} for None, {best_time} otherwise
find_available_time(user_id, duration_minutes, start_date, end_date) ==
    UNION {IF slots = {} THEN {} ELSE first_after_sort(slots) :
              slots \in {best_slots(user_id, duration_minutes, start_date, end_date)}}

\* the branch of alice_negotiates / bob_negotiates taken when conflicts were found
conflict_response(alternative_time) ==
    IF alternative_time # {}
    THEN [action |-> "counter_proposal", time |-> alternative_time]
    ELSE [action |-> "reject", time |-> {}]

\* alice_negotiates / bob_negotiates, which differ in the user id only
negotiates(user_id, duration_minutes, proposed_time) ==
    LET proposed_end == proposed_time + duration_minutes
        search_start == proposed_time
        search_end == search_start + LookAheadDays * MinutesPerDay
    IN  IF check_time_conflict(user_id, proposed_time, proposed_end) # {}
        THEN CHOOSE r \in {conflict_response(alternative_time) :
                              alternative_time \in
                                  {find_available_time(user_id, duration_minutes,
                                                       search_start, search_end)}} : TRUE
        ELSE [action |-> "accept", time |-> {proposed_time}]

alice_negotiates(duration_minutes, proposed_time) ==
    negotiates("alice", duration_minutes, proposed_time)

bob_negotiates(duration_minutes, proposed_time) ==
    negotiates("bob", duration_minutes, proposed_time)

\* PersistentNegotiation.log_message: the log with one more entry
log_message(log, from_agent, to_agent, message_type) ==
    Append(log, [from_agent |-> from_agent, to_agent |-> to_agent,
                 message_type |-> message_type])

\* what PersistentNegotiation.schedule_meeting leaves in meeting_requests:
\* create_meeting_request then update_meeting_status, each an execute_command
\* that does nothing without a connection
schedule_meeting_requests(table, duration_minutes, meeting_time) ==
    IF connection
    THEN table \cup {[initiator_id |-> "bob",
                      duration_minutes |-> duration_minutes,
                      preferred_start_time |-> meeting_time,
                      preferred_end_time |-> meeting_time + duration_minutes,
                      status |-> "scheduled",
                      final_scheduled_time |-> meeting_time]}
    ELSE table

\* what PersistentNegotiation.schedule_meeting leaves in calendar_blocks: a
\* busy, priority 8, non-moveable block for bob and one for alice
schedule_meeting_blocks(table, duration_minutes, meeting_time) ==
    LET meeting_end == meeting_time + duration_minutes
    IN  add_calendar_block(
            add_calendar_block(table, "bob", meeting_time, meeting_end, "busy", 8, FALSE),
            "alice", meeting_time, meeting_end, "busy", 8, FALSE)

\* the value PersistentNegotiation.schedule_meeting returns: no call in its try
\* block raises (execute_command swallows every exception), so it is True
schedule_meeting_result == TRUE

-----------------------------------------------------------------------------
(* the bounds of the negotiation model *)

\* at most this many rows in calendar_blocks at the start of a run
MaxBlocks == 2

\* the candidate rows of each party: a fixed meeting Monday 09:00-10:00, a fixed
\* low-priority meeting Monday 10:00-11:00, a moveable flexible block Monday
\* 09:00-10:00, and an absence from Saturday 00:00 to Tuesday of the next week 10:00
BlockPool ==
    UNION {{Row(u, At(2, 9, 0), At(2, 10, 0), "busy", 7, FALSE),
            Row(u, At(2, 10, 0), At(2, 11, 0), "busy", 5, FALSE),
            Row(u, At(2, 9, 0), At(2, 10, 0), "flexible", 3, TRUE),
            Row(u, At(0, 0, 0), At(10, 10, 0), "busy", 8, FALSE)} : u \in {"bob", "alice"}}

Calendars(pool, n) == {c \in SUBSET pool : Cardinality(c) <= n}

\* the random choices of create_meeting_request that the model explores
RequestDurations == {15, 60, 75, 120}
RequestHours == {9, 10, 14, 17}
RequestDayOffsets == {0, 2, 3, 7}

NoResponse == [action |-> "none", time |-> {}, proposed_time |-> {}, by |-> "none"]

\* no response sent yet, schedule_meeting not called yet
NoHttpResponse == [status_code |-> 0, success |-> FALSE, message |-> "none"]
NoCommitResult == [called |-> FALSE, success |-> FALSE, meeting_id |-> 0]

\* no decision engine at work
NoEvaluation == [evaluated |-> FALSE, acceptable |-> FALSE, conflicts |-> {}]

\* no scorer called
NoQualityScore == [scored |-> FALSE, api |-> 0, backend_api |-> 0, backend_test |-> 0, other |-> 0]

\* no agent has a message to handle
IdleAgent ==
    /\ mailbox = <<>>
    /\ handled = <<>>

\* Charlie's calendar service not called
IdleCharlie ==
    conflict_check = [called |-> FALSE, start_time |-> 0, end_time |-> 0, rows |-> {}]

\* ConnectionManager.__init__, and no broadcast called
IdleBroadcast ==
    /\ active_connections = <<>>
    /\ closed_connections = {}
    /\ broadcast_call = [called |-> FALSE, running |-> FALSE, index |-> 0, current |-> 0,
                         connections |-> <<>>, sent_to |-> <<>>, disconnected |-> {}]

IdleScore ==
    /\ score_call = [slot_time |-> 0, other_slot_time |-> 0, preferred_time |-> 0]
    /\ quality_score = NoQualityScore

IdleDecision ==
    /\ engine = [class |-> "none", personality |-> "none", flexibility_score |-> 0,
                 priority_threshold |-> 0]
    /\ agent_calendar = {}
    /\ proposal = {}
    /\ evaluation = NoEvaluation

NegIdleSearch ==
    /\ api_module = "none"
    /\ now = 0
    /\ request = [preferred_day |-> 0, preferred_hour |-> 0, preferred_minute |-> 0,
                  duration_minutes |-> 0, parses |-> TRUE,
                  is_ai_agent_meeting |-> TRUE]
    /\ spc = "idle"
    /\ available_slots = <<>>
    /\ endpoint = "none"
    /\ slot_index = 0
    /\ http_response = NoHttpResponse
    /\ calendar_queries = 0
    /\ commit_result = NoCommitResult
    /\ meeting_participants = {}
    /\ api_commits = <<>>

\* PersistentNegotiation.__init__, over a seeded database
InitNeg ==
    /\ calendar_blocks \in Calendars(BlockPool, MaxBlocks)
    /\ connection = FALSE
    /\ meeting_requests = {}
    /\ pc = "setup"
    /\ meeting_request = {}
    /\ round_num = 0
    /\ current_proposal = {}
    /\ current_negotiator = "none"
    /\ negotiation_log = <<>>
    /\ scheduled_meeting = {}
    /\ outcome = "none"
    /\ returned = "none"
    /\ evaluations = 0
    /\ response = NoResponse
    /\ NegIdleSearch
    /\ IdleDecision
    /\ IdleScore
    /\ IdleAgent
    /\ IdleCharlie
    /\ IdleBroadcast

\* setup_database: the import fails (return False), or connect() finds the
\* database file (connection set) or does not (connection stays None)
SetupDatabase ==
    /\ pc = "setup"
    /\ \E r \in {"import_error", "connected", "no_file"} :
        /\ connection' = (r = "connected")
        /\ pc' = IF r = "import_error" THEN "done" ELSE "send"
        /\ returned' = IF r = "import_error" THEN "False" ELSE returned
    /\ UNCHANGED <<calendar_blocks, meeting_requests, meeting_request, round_num,
                   current_proposal, current_negotiator, negotiation_log,
                   scheduled_meeting, outcome, evaluations, response>>
    /\ UNCHANGED searchVars
    /\ UNCHANGED decVars
    /\ UNCHANGED scoreVars
    /\ UNCHANGED serviceVars

\* send_meeting_request with create_meeting_request: the request is drawn, the
\* MEETING_REQUEST is logged, and send_message succeeds or raises (return False);
\* on success the loop starts with the preferred time on the table and alice to answer
SendMeetingRequest ==
    /\ pc = "send"
    /\ \E duration \in RequestDurations, initial_hour \in RequestHours,
          day_offset \in RequestDayOffsets, sent \in BOOLEAN :
        /\ meeting_request' = {[duration_minutes |-> duration,
                                preferred_start_time |-> At(day_offset, initial_hour, 0)]}
        /\ negotiation_log' = log_message(negotiation_log, "Bob", "Alice", "MEETING_REQUEST")
        /\ IF sent
           THEN /\ pc' = "loop"
                /\ current_proposal' = {At(day_offset, initial_hour, 0)}
                /\ current_negotiator' = "alice"
                /\ returned' = returned
           ELSE /\ pc' = "done"
                /\ current_proposal' = current_proposal
                /\ current_negotiator' = current_negotiator
                /\ returned' = "False"
    /\ UNCHANGED <<round_num, scheduled_meeting, outcome, evaluations, response>>
    /\ UNCHANGED dbVars
    /\ UNCHANGED searchVars
    /\ UNCHANGED decVars
    /\ UNCHANGED scoreVars
    /\ UNCHANGED serviceVars

TheProposal == CHOOSE t \in current_proposal : TRUE
TheDuration == (CHOOSE r \in meeting_request : TRUE).duration_minutes

\* the name log_message is given for a party
DisplayName(user_id) == IF user_id = "alice" THEN "Alice" ELSE "Bob"
OtherParty(user_id) == IF user_id = "alice" THEN "bob" ELSE "alice"

\* a loop that forgets to return after a rejection
pc_after_rejection_goes_on(action) == IF action = "accept" THEN "done" ELSE "loop"

\* what the loop does after a response: a counter-proposal goes on to the next
\* round, an acceptance or a rejection returns
pc_after(action) == IF action = "counter_proposal" THEN "loop" ELSE "done"

\* a loop that leaves the turn with the party that just answered
next_negotiator_unchanged(who) == who

\* who answers the counter-proposal of `who`
next_negotiator(who) == OtherParty(who)

message_type_of(action) ==
    IF action = "accept" THEN "ACCEPTANCE"
    ELSE IF action = "counter_proposal" THEN "COUNTER_PROPOSAL"
    ELSE "REJECTION"

\* a loop that schedules the meeting after a rejection too
calls_schedule_meeting_unless_countered(action) == action # "counter_proposal"

\* the branch of the loop that calls schedule_meeting: the acceptance
calls_schedule_meeting(action) == action = "accept"

\* one iteration of the for loop in which `who` answers with response `resp`
Iteration(who, resp) ==
    /\ round_num' = round_num + 1
    /\ evaluations' = evaluations + 1
    /\ response' = [action |-> resp.action, time |-> resp.time,
                    proposed_time |-> current_proposal, by |-> who]
    /\ negotiation_log' = log_message(negotiation_log, DisplayName(who),
                                      DisplayName(OtherParty(who)), message_type_of(resp.action))
    /\ pc' = pc_after(resp.action)
    /\ current_proposal' = IF resp.action = "counter_proposal" THEN resp.time
                           ELSE current_proposal
    /\ current_negotiator' = IF resp.action = "counter_proposal" THEN next_negotiator(who)
                             ELSE current_negotiator
    /\ outcome' = IF resp.action = "accept" THEN "Accepted"
                  ELSE IF resp.action = "reject" THEN "Rejected"
                  ELSE outcome
    /\ returned' = IF resp.action = "accept"
                   THEN (IF schedule_meeting_result THEN "True" ELSE "False")
                   ELSE IF resp.action = "reject" THEN "False"
                   ELSE returned
    /\ meeting_requests' = IF calls_schedule_meeting(resp.action)
                           THEN schedule_meeting_requests(meeting_requests, TheDuration, TheProposal)
                           ELSE meeting_requests
    /\ calendar_blocks' = IF calls_schedule_meeting(resp.action)
                          THEN schedule_meeting_blocks(calendar_blocks, TheDuration, TheProposal)
                          ELSE calendar_blocks
    /\ scheduled_meeting' = IF calls_schedule_meeting(resp.action) THEN {TheProposal}
                            ELSE scheduled_meeting
    /\ UNCHANGED <<meeting_request, connection>>
    /\ UNCHANGED searchVars
    /\ UNCHANGED decVars
    /\ UNCHANGED scoreVars
    /\ UNCHANGED serviceVars

\* a loop that runs one round too many
loop_continues_one_more == round_num <= max_rounds

\* a loop that gives up one round early
loop_continues_one_less == round_num < max_rounds - 1

\* the loop condition: range(1, max_rounds + 1) has a next value
loop_continues == round_num < max_rounds

\* a round in which alice answers
AliceRound ==
    /\ pc = "loop"
    /\ loop_continues
    /\ current_negotiator = "alice"
    /\ \E alice_response \in {alice_negotiates(TheDuration, TheProposal)} :
          Iteration("alice", alice_response)

\* a round in which bob answers
BobRound ==
    /\ pc = "loop"
    /\ loop_continues
    /\ current_negotiator # "alice"
    /\ \E bob_response \in {bob_negotiates(TheDuration, TheProposal)} :
          Iteration("bob", bob_response)

\* the for loop runs out: "Maximum rounds reached", return False
MaxRoundsReached ==
    /\ pc = "loop"
    /\ ~loop_continues
    /\ outcome' = "Exhausted"
    /\ returned' = "False"
    /\ pc' = "done"
    /\ UNCHANGED <<meeting_request, round_num, current_proposal, current_negotiator,
                   negotiation_log, scheduled_meeting, evaluations, response>>
    /\ UNCHANGED dbVars
    /\ UNCHANGED searchVars
    /\ UNCHANGED decVars
    /\ UNCHANGED scoreVars
    /\ UNCHANGED serviceVars

NextNeg ==
    \/ SetupDatabase
    \/ SendMeetingRequest
    \/ AliceRound
    \/ BobRound
    \/ MaxRoundsReached

SpecNeg == InitNeg /\ [][NextNeg]_vars

\* the event loop runs the coroutine to its end
FairSpecNeg == SpecNeg /\ WF_vars(NextNeg)

-----------------------------------------------------------------------------
(* properties of the negotiation loop *)

Terminal == {"Accepted", "Rejected", "Exhausted"}

\* a step that is one proposal evaluation (one call of alice_negotiates or bob_negotiates)
EvaluationStep == evaluations' # evaluations

\* C3: the round counter grows by exactly one with every proposal evaluation,
\* never decreases, never exceeds max_rounds, and no run performs more than
\* max_rounds evaluations
C3_RoundBound ==
    [][/\ round_num' >= round_num
       /\ EvaluationStep => (round_num' = round_num + 1 /\ evaluations' = evaluations + 1)
       /\ round_num' <= max_rounds
       /\ evaluations' <= max_rounds
       /\ evaluations' = round_num']_vars

C3_Witness == round_num = max_rounds /\ evaluations = max_rounds /\ pc = "loop"

\* C4: a run that entered the loop ends in exactly one of Accepted, Rejected,
\* Exhausted; once the outcome is set it never changes and nothing else
\* happens: no evaluation, no counter-proposal, no log entry, no commit
C4_TerminalExclusive ==
    /\ [](outcome \in Terminal \cup {"none"})
    /\ [][outcome # "none" =>
            /\ outcome' = outcome
            /\ UNCHANGED <<evaluations, round_num, current_proposal, current_negotiator,
                           negotiation_log, scheduled_meeting, meeting_requests,
                           calendar_blocks, response>>]_vars
    /\ [][outcome' # "none" /\ outcome = "none" => pc' = "done"]_vars
    /\ (pc = "loop" ~> outcome \in Terminal)

C4_Witness == outcome = "Rejected" /\ pc = "done" /\ round_num >= 1

\* every evaluation so far produced a counter-proposal and the rounds are used up
AllCountered == pc = "loop" /\ round_num = max_rounds

\* C5: every run terminates; a run whose max_rounds evaluations all produced a
\* counter-proposal ends Exhausted, and an Exhausted run made max_rounds
\* evaluations and committed no meeting
C5_Terminates ==
    /\ <>(pc = "done")
    /\ (AllCountered ~> outcome = "Exhausted")
    /\ [](outcome = "Exhausted" =>
            /\ evaluations = max_rounds
            /\ scheduled_meeting = {}
            /\ meeting_requests = {}
            /\ calendar_blocks \subseteq BlockPool
            /\ returned = "False")

C5_Witness == outcome = "Exhausted" /\ Len(negotiation_log) = max_rounds + 1

\* the step in which the loop reaches Accepted
AcceptStep == outcome = "none" /\ outcome' = "Accepted"

\* C6 (as claimed, for runs whose database connection works): whenever a run
\* ends in Accepted(t), [t, t + duration) is free of blocks in the calendars of
\* both parties as they were before the commit
C6_AcceptedFreeForBoth ==
    [][(AcceptStep /\ connection) =>
         \A u \in {"bob", "alice"} :
            overlapping_blocks(u, TheProposal, TheProposal + TheDuration) = {}]_vars

\* the slots of the look-ahead window of the initial proposal that are free of
\* blocks for both parties
CommonFreeSlots ==
    LET req == CHOOSE r \in meeting_request : TRUE
        t0 == req.preferred_start_time
    IN  {ts \in search_candidates(req.duration_minutes, t0, t0 + LookAheadDays * MinutesPerDay) :
            \A u \in {"bob", "alice"} :
                overlapping_blocks(u, ts, ts + req.duration_minutes) = {}}

\* C7 (as claimed): while a slot of the look-ahead window is free for both
\* parties the run does not end Rejected or Exhausted
C7_ConvergesOnCommonSlot ==
    outcome \in {"Rejected", "Exhausted"} => CommonFreeSlots = {}

\* the responder of the round about to run can use the proposal on the table
\* in the sense of the Conflict Classifier: no hard conflict, soft conflicts
\* within its tolerance
UsableForResponder ==
    /\ hard_conflicts(current_negotiator, TheProposal, TheProposal + TheDuration) = {}
    /\ Cardinality(soft_conflicts(current_negotiator, TheProposal, TheProposal + TheDuration))
         <= conflict_tolerance(current_negotiator)

FreeInWindow(user_id, t) ==
    {ts \in search_candidates(TheDuration, t, t + LookAheadDays * MinutesPerDay) :
        overlapping_blocks(user_id, ts, ts + TheDuration) = {}}

\* C9: a responder that sees a conflict counter-proposes when its window holds
\* a free slot and rejects otherwise; a counter-proposal t' is free in the
\* responder's own calendar, hands the turn to the other party and comes with
\* the round number grown by one; a rejection ends the run Rejected
C9_CounterProposal ==
    [][(pc = "loop" /\ EvaluationStep /\ connection
        /\ overlapping_blocks(current_negotiator, TheProposal, TheProposal + TheDuration) # {})
       => IF FreeInWindow(current_negotiator, TheProposal) # {}
          THEN /\ response'.action = "counter_proposal"
               /\ response'.by = current_negotiator
               /\ current_proposal' \subseteq FreeInWindow(current_negotiator, TheProposal)
               /\ Cardinality(current_proposal') = 1
               /\ current_negotiator' \in {"bob", "alice"} \ {current_negotiator}
               /\ round_num' = round_num + 1
               /\ outcome' = "none"
               /\ pc' = "loop"
          ELSE /\ response'.action = "reject"
               /\ outcome' = "Rejected"
               /\ pc' = "done"]_vars

C9_Witness ==
    /\ response.action = "counter_proposal"
    /\ response.by = "bob"
    /\ current_negotiator = "alice"
    /\ round_num >= 2
    /\ pc = "loop"

CounterStep == EvaluationStep /\ response'.action = "counter_proposal"

-----------------------------------------------------------------------------
(* Slot Search: class APINegotiation of src/api.py (bob and alice) and of
   src/backend_agents/api.py (bob, alice and charlie) *)

\* the list validate_input checks duration_minutes against
allowed_durations == {15, 30, 45, 60, 90, 120}

\* preferred_date.replace(hour=preferred_time.hour, minute=preferred_time.minute)
preferred_datetime(req) ==
    At(req.preferred_day, req.preferred_hour, req.preferred_minute)

\* a validation that forgets the weekend test
validate_input_any_day(req) ==
    /\ req.parses
    /\ ~(req.preferred_day < 0 \/ req.preferred_day > 29)
    /\ ~(req.preferred_hour < 8 \/ req.preferred_hour >= 17)
    /\ req.duration_minutes \in {15, 30, 45, 60, 90, 120}

\* src/api.py validate_input: a date and a time that strptime parses, a weekday
\* between 2025-09-27 and 2025-10-26, an hour from 8 to 16, a listed duration
validate_input(req) ==
    /\ req.parses
    /\ ~(Weekday(At(req.preferred_day, 0, 0)) >= 5)
    /\ ~(req.preferred_day < 0 \/ req.preferred_day > 29)
    /\ ~(req.preferred_hour < 8 \/ req.preferred_hour >= 17)
    /\ req.duration_minutes \in allowed_durations

\* src/backend_agents/api.py validate_input: a weekday from today to 2025-10-27
validate_input_3agent(req) ==
    /\ req.parses
    /\ ~(Weekday(At(req.preferred_day, 0, 0)) >= 5)
    /\ ~(req.preferred_day < today)
    /\ ~(req.preferred_day > 30)
    /\ ~(req.preferred_hour < 8 \/ req.preferred_hour >= 17)
    /\ req.duration_minutes \in allowed_durations

\* a scorer whose morning bonus outweighs the closeness steps
calculate_slot_quality_morning_outweighs(slot_time, preferred_time) ==
    LET time_diff == IF slot_time >= preferred_time THEN slot_time - preferred_time
                     ELSE preferred_time - slot_time
        hour == HourOf(slot_time)
        minute == MinuteOf(slot_time)
    IN  (IF time_diff = 0 THEN 100
         ELSE IF time_diff <= 60 THEN 80
         ELSE IF time_diff <= 120 THEN 60
         ELSE IF time_diff <= 240 THEN 40
         ELSE 20)
      + (IF 9 <= hour /\ hour <= 11 THEN 30
         ELSE IF 14 <= hour /\ hour <= 16 THEN 8
         ELSE IF 8 <= hour /\ hour <= 9 THEN 6
         ELSE IF 16 <= hour /\ hour <= 17 THEN 4
         ELSE 0)
      + (IF minute = 0 THEN 5 ELSE IF minute = 30 THEN 3 ELSE 0)

\* a scorer whose closeness score grows with the distance
calculate_slot_quality_farther_better(slot_time, preferred_time) ==
    LET time_diff == IF slot_time >= preferred_time THEN slot_time - preferred_time
                     ELSE preferred_time - slot_time
    IN  (IF time_diff = 0 THEN 20
         ELSE IF time_diff <= 60 THEN 40
         ELSE IF time_diff <= 120 THEN 60
         ELSE IF time_diff <= 240 THEN 80
         ELSE 100)
      + (IF MinuteOf(slot_time) = 0 THEN 5 ELSE IF MinuteOf(slot_time) = 30 THEN 3 ELSE 0)

\* a scorer that tests the early morning before the morning
calculate_slot_quality_early_morning_first(slot_time, preferred_time) ==
    LET time_diff == IF slot_time >= preferred_time THEN slot_time - preferred_time
                     ELSE preferred_time - slot_time
        hour == HourOf(slot_time)
        minute == MinuteOf(slot_time)
    IN  (IF time_diff = 0 THEN 100
         ELSE IF time_diff <= 60 THEN 80
         ELSE IF time_diff <= 120 THEN 60
         ELSE IF time_diff <= 240 THEN 40
         ELSE 20)
      + (IF 8 <= hour /\ hour <= 9 THEN 6
         ELSE IF 9 <= hour /\ hour <= 11 THEN 10
         ELSE IF 14 <= hour /\ hour <= 16 THEN 8
         ELSE IF 16 <= hour /\ hour <= 17 THEN 4
         ELSE 0)
      + (IF minute = 0 THEN 5 ELSE IF minute = 30 THEN 3 ELSE 0)

\* calculate_slot_quality of src/api.py: closeness to the preferred time, time of
\* day, round minute
calculate_slot_quality(slot_time, preferred_time) ==
    LET time_diff == IF slot_time >= preferred_time THEN slot_time - preferred_time
                     ELSE preferred_time - slot_time
        hour == HourOf(slot_time)
        minute == MinuteOf(slot_time)
    IN  (IF time_diff = 0 THEN 100
         ELSE IF time_diff <= 60 THEN 80
         ELSE IF time_diff <= 120 THEN 60
         ELSE IF time_diff <= 240 THEN 40
         ELSE 20)
      + (IF 9 <= hour /\ hour <= 11 THEN 10
         ELSE IF 14 <= hour /\ hour <= 16 THEN 8
         ELSE IF 8 <= hour /\ hour <= 9 THEN 6
         ELSE IF 16 <= hour /\ hour <= 17 THEN 4
         ELSE 0)
      + (IF minute = 0 THEN 5 ELSE IF minute = 30 THEN 3 ELSE 0)

\* abs((slot_time - preferred_time).total_seconds() / 3600) <= hours, in minutes
within_hours(slot_time, preferred_time, hours) ==
    /\ slot_time - preferred_time <= hours * 60
    /\ preferred_time - slot_time <= hours * 60

\* src/backend_agents/api.py calculate_slot_quality
calculate_slot_quality_backend_api(slot_time, preferred_time) ==
    (IF slot_time = preferred_time THEN 100
     ELSE IF within_hours(slot_time, preferred_time, 1) THEN 80
     ELSE IF within_hours(slot_time, preferred_time, 2) THEN 60
     ELSE IF within_hours(slot_time, preferred_time, 4) THEN 40
     ELSE 20)
    + (IF 9 <= HourOf(slot_time) /\ HourOf(slot_time) <= 11 THEN 10
       ELSE IF 14 <= HourOf(slot_time) /\ HourOf(slot_time) <= 16 THEN 8
       ELSE IF 8 <= HourOf(slot_time) /\ HourOf(slot_time) <= 9 THEN 6
       ELSE IF 16 <= HourOf(slot_time) /\ HourOf(slot_time) <= 17 THEN 4
       ELSE 0)
    + (IF MinuteOf(slot_time) = 0 THEN 5
       ELSE IF MinuteOf(slot_time) = 30 THEN 3
       ELSE 0)

\* src/backend_agents/test.py calculate_slot_quality
calculate_slot_quality_backend_test(slot_time, preferred_time) ==
    (IF slot_time = preferred_time THEN 100
     ELSE IF within_hours(slot_time, preferred_time, 1) THEN 80
     ELSE IF within_hours(slot_time, preferred_time, 2) THEN 60
     ELSE IF within_hours(slot_time, preferred_time, 4) THEN 40
     ELSE 20)
    + (IF 9 <= HourOf(slot_time) /\ HourOf(slot_time) <= 11 THEN 10
       ELSE IF 14 <= HourOf(slot_time) /\ HourOf(slot_time) <= 16 THEN 8
       ELSE IF 8 <= HourOf(slot_time) /\ HourOf(slot_time) <= 9 THEN 6
       ELSE IF 16 <= HourOf(slot_time) /\ HourOf(slot_time) <= 17 THEN 4
       ELSE 0)
    + (IF MinuteOf(slot_time) = 0 THEN 5
       ELSE IF MinuteOf(slot_time) = 30 THEN 3
       ELSE 0)

\* calculate_3agent_slot_quality: the base score plus the adjustments of the
\* three agents, never below 0
calculate_3agent_slot_quality(slot_time, preferred_time, pappu_conflicts, alice_conflicts, charlie_conflicts) ==
    LET hour == HourOf(slot_time)
        standard == (9 <= hour /\ hour <= 11) \/ (14 <= hour /\ hour <= 16)
        agent_adjustments ==
              (IF pappu_conflicts # {} THEN -5 ELSE 0)
            + (IF standard THEN 3 ELSE 0)
            + (IF alice_conflicts # {} THEN -15 ELSE 0)
            + (IF hour \in {10, 11, 14, 15} THEN 5 ELSE 0)
            + (IF \E conflict \in alice_conflicts : conflict.block_type = "focus_time"
               THEN -25 ELSE 0)
            + (IF charlie_conflicts # {} THEN -8 ELSE 0)
            + (IF MinuteOf(slot_time) = 0 THEN 8 ELSE 0)
            + (IF standard THEN 6 ELSE 0)
            + (IF Weekday(slot_time) \in {1, 2, 3} THEN 4 ELSE 0)
        total == calculate_slot_quality_backend_api(slot_time, preferred_time) + agent_adjustments
    IN  IF total > 0 THEN total ELSE 0

\* a candidate loop without the test on test_end.hour
working_hours_candidates_past_close(search_start, search_end, duration) ==
    {At(day, hour, minute) :
        day \in {d \in DayOf(search_start) .. DayOf(search_end) :
                    ~(Weekday(At(d, 0, 0)) >= 5)},
        hour \in 8 .. 16,
        minute \in {0, 15, 30, 45}}

\* the test_start values both searches check: the weekdays from the date of
\* search_start to the date of search_end, hours 8..16, quarter hours, skipping
\* the ones whose end has hour >= 17
working_hours_candidates(search_start, search_end, duration) ==
    {ts \in {At(day, hour, minute) :
                day \in {d \in DayOf(search_start) .. DayOf(search_end) :
                            ~(Weekday(At(d, 0, 0)) >= 5)},
                hour \in 8 .. 16,
                minute \in {0, 15, 30, 45}} :
        ~(HourOf(ts + duration) >= 17)}

\* a sort that puts the latest of the slots of equal score first
RECURSIVE sorted_prefix_latest_first(_, _)
sorted_prefix_latest_first(scored, n) ==
    IF n = 0 \/ scored = {} THEN <<>>
    ELSE LET top == SetMax({p[2] : p \in scored})
             first == SetMax({p[1] : p \in {q \in scored : q[2] = top}})
         IN  <<<<first, top>>>> \o sorted_prefix_latest_first(scored \ {<<first, top>>}, n - 1)

\* available_slots.sort(key=quality_score, reverse=True)[:n] over pairs
\* <<test_start, quality_score>>: the sort is stable and the list was built in
\* order of test_start, so equal scores stay in order of time
RECURSIVE sorted_prefix(_, _)
sorted_prefix(scored, n) ==
    IF n = 0 \/ scored = {} THEN <<>>
    ELSE LET top == SetMax({p[2] : p \in scored})
             first == SetMin({p[1] : p \in {q \in scored : q[2] = top}})
         IN  <<<<first, top>>>> \o sorted_prefix(scored \ {<<first, top>>}, n - 1)

\* the dictionaries appended to available_slots
slot_records(pairs, duration) ==
    [i \in 1 .. Len(pairs) |->
        [start_time |-> pairs[i][1], end_time |-> pairs[i][1] + duration,
         quality_score |-> pairs[i][2], duration_minutes |-> duration]]

\* src/api.py find_available_slots: three days around the preferred time, free
\* of rows for bob and alice, the five best
find_available_slots(req) ==
    LET preferred == preferred_datetime(req)
        duration == req.duration_minutes
        free == {ts \in working_hours_candidates(preferred - 3 * MinutesPerDay,
                                                 preferred + 3 * MinutesPerDay, duration) :
                    /\ check_time_conflict("bob", ts, ts + duration) = {}
                    /\ check_time_conflict("alice", ts, ts + duration) = {}}
    IN  slot_records(sorted_prefix({<<ts, calculate_slot_quality(ts, preferred)>> : ts \in free},
                                   5), duration)

\* the any(...) tests of negotiate_with_ai_agent_api: a row of the party that is
\* not moveable and has at least the party's priority
has_conflict(conflicts, min_priority) ==
    \E conflict \in conflicts : ~conflict.is_moveable /\ conflict.priority >= min_priority

\* src/backend_agents/api.py negotiate_with_ai_agent_api: five days around the
\* preferred time, clamped to today and 2025-10-27, the three best
negotiate_with_ai_agent_api(preferred, duration) ==
    LET before == preferred - 5 * MinutesPerDay
        after == preferred + 5 * MinutesPerDay
        search_start == IF before >= At(today, 0, 0) THEN before ELSE At(today, 0, 0)
        search_end == IF after <= At(30, 23, 59) THEN after ELSE At(30, 23, 59)
        free == {ts \in working_hours_candidates(search_start, search_end, duration) :
                    /\ ~has_conflict(check_time_conflict("bob", ts, ts + duration), 7)
                    /\ ~has_conflict(check_time_conflict("alice", ts, ts + duration), 8)
                    /\ ~has_conflict(check_time_conflict("charlie", ts, ts + duration), 6)}
    IN  slot_records(sorted_prefix(
            {<<ts, calculate_3agent_slot_quality(ts, preferred,
                       check_time_conflict("bob", ts, ts + duration),
                       check_time_conflict("alice", ts, ts + duration),
                       check_time_conflict("charlie", ts, ts + duration))>> : ts \in free},
            3), duration)

\* src/backend_agents/api.py find_external_meeting_slots_api: three days around
\* the preferred time, clamped to today and 2025-10-27, free of rows for bob
\* only, the three best by calculate_slot_quality
find_external_meeting_slots_api(preferred, duration) ==
    LET before == preferred - 3 * MinutesPerDay
        after == preferred + 3 * MinutesPerDay
        search_start == IF before >= At(today, 0, 0) THEN before ELSE At(today, 0, 0)
        search_end == IF after <= At(30, 23, 59) THEN after ELSE At(30, 23, 59)
        free == {ts \in working_hours_candidates(search_start, search_end, duration) :
                    check_time_conflict("bob", ts, ts + duration) = {}}
    IN  slot_records(sorted_prefix(
            {<<ts, calculate_slot_quality_backend_api(ts, preferred)>> : ts \in free}, 3), duration)

-----------------------------------------------------------------------------
(* the bounds of the search model *)

\* at most this many rows in calendar_blocks when a request arrives
MaxSearchBlocks == 1

\* the candidate rows: a fixed low-priority meeting Monday 10:00-11:00 of each
\* party, a moveable focus block of alice, a flexible block of bob, and an
\* absence of bob over the whole date range
SearchBlockPool ==
    {Row(u, At(2, 10, 0), At(2, 11, 0), "busy", 5, FALSE) : u \in {"bob", "alice", "charlie"}}
    \cup {Row("alice", At(2, 8, 0), At(2, 9, 0), "focus_time", 9, TRUE),
          Row("bob", At(2, 8, 0), At(2, 9, 0), "flexible", 3, TRUE),
          Row("bob", At(-10, 0, 0), At(40, 0, 0), "busy", 8, FALSE)}

\* the requests the model explores: Monday 2025-09-29, Saturday 2025-10-04,
\* Monday 2025-10-27, and one whose date or time strptime cannot parse
SearchDays == {2, 7, 30}
SearchHours == {7, 8, 10, 16, 17}
SearchMinutes == {0, 15, 20}
SearchDurations == {30, 60, 100}

\* the requests for an external meeting (is_ai_agent_meeting false; src/api.py
\* has no such field and ignores it)
ExternalDays == {2, 30}
ExternalHours == {8, 16}
ExternalDurations == {30, 60}
SearchRequests ==
    [preferred_day : SearchDays, preferred_hour : SearchHours,
     preferred_minute : SearchMinutes, duration_minutes : SearchDurations,
     parses : {TRUE}, is_ai_agent_meeting : {TRUE}]
    \cup [preferred_day : ExternalDays, preferred_hour : ExternalHours,
          preferred_minute : {0}, duration_minutes : ExternalDurations,
          parses : {TRUE}, is_ai_agent_meeting : {FALSE}]
    \cup {[preferred_day |-> 2, preferred_hour |-> 10, preferred_minute |-> 0,
           duration_minutes |-> 60, parses |-> FALSE, is_ai_agent_meeting |-> TRUE]}

\* the API module that serves the request and the time it runs at: Saturday
\* 2025-09-27 00:00 or Monday 2025-10-27 15:00 (src/api.py never looks at the clock)
SearchServers ==
    {<<"api", 0>>, <<"backend_agents_api", 0>>, <<"backend_agents_api", At(30, 15, 0)>>}

\* the endpoint and its slot_index parameter
SearchCalls == {<<"negotiate", 0>>, <<"schedule", 0>>, <<"schedule", 5>>}

SearchIdleNeg ==
    /\ pc = "idle"
    /\ meeting_request = {}
    /\ round_num = 0
    /\ current_proposal = {}
    /\ current_negotiator = "none"
    /\ negotiation_log = <<>>
    /\ scheduled_meeting = {}
    /\ outcome = "none"
    /\ returned = "none"
    /\ evaluations = 0
    /\ response = NoResponse

\* a request arrives at the negotiate or schedule endpoint of one of the two APIs
InitSearch ==
    /\ calendar_blocks \in Calendars(SearchBlockPool, MaxSearchBlocks)
    /\ connection \in BOOLEAN
    /\ meeting_requests = {}
    /\ SearchIdleNeg
    /\ IdleDecision
    /\ IdleScore
    /\ IdleAgent
    /\ IdleCharlie
    /\ IdleBroadcast
    /\ \E server \in SearchServers : api_module = server[1] /\ now = server[2]
    /\ request \in SearchRequests
    /\ \E call \in SearchCalls : endpoint = call[1] /\ slot_index = call[2]
    /\ spc = "received"
    /\ available_slots = <<>>
    /\ http_response = NoHttpResponse
    /\ calendar_queries = 0
    /\ commit_result = NoCommitResult
    /\ meeting_participants = {}
    /\ api_commits = <<>>

\* the except Exception clause that wraps the body of every endpoint: whatever
\* is raised inside, an HTTPException(status_code=400) included, leaves as
\* HTTPException(status_code=500)
raised_in_endpoint(status_code) ==
    [status_code |-> 500, success |-> FALSE, message |-> "Internal server error"]

\* a NegotiationResult returned by an endpoint
returned_result(success, message) ==
    [status_code |-> 200, success |-> success, message |-> message]

\* negotiate_meeting / schedule_meeting: validate_input, HTTPException(400) when it fails
ValidateInput ==
    /\ spc = "received"
    /\ \E is_valid \in {IF api_module = "api" THEN validate_input(request)
                        ELSE validate_input_3agent(request)} :
        /\ spc' = IF is_valid THEN "validated" ELSE "rejected"
        /\ http_response' = IF is_valid THEN http_response ELSE raised_in_endpoint(400)
    /\ UNCHANGED <<api_module, now, request, available_slots, endpoint, slot_index,
                   calendar_queries, commit_result, meeting_participants, api_commits>>
    /\ UNCHANGED dbVars
    /\ UNCHANGED negVars
    /\ UNCHANGED decVars
    /\ UNCHANGED scoreVars
    /\ UNCHANGED serviceVars

\* the number of check_time_conflict calls of a search: one per party and candidate
search_queries(req, parties, days_around) ==
    parties * Cardinality(working_hours_candidates(
        IF api_module = "api" \/ preferred_datetime(req) - days_around * MinutesPerDay >= At(today, 0, 0)
        THEN preferred_datetime(req) - days_around * MinutesPerDay ELSE At(today, 0, 0),
        IF api_module = "api" \/ preferred_datetime(req) + days_around * MinutesPerDay <= At(30, 23, 59)
        THEN preferred_datetime(req) + days_around * MinutesPerDay ELSE At(30, 23, 59),
        req.duration_minutes))

\* the endpoints of src/api.py after validation: find_available_slots
FindAvailableSlots ==
    /\ spc = "validated"
    /\ api_module = "api"
    /\ available_slots' = find_available_slots(request)
    /\ calendar_queries' = calendar_queries + search_queries(request, 2, 3)
    /\ spc' = "found"
    /\ UNCHANGED <<api_module, now, request, endpoint, slot_index, http_response,
                   commit_result, meeting_participants, api_commits>>
    /\ UNCHANGED dbVars
    /\ UNCHANGED negVars
    /\ UNCHANGED decVars
    /\ UNCHANGED scoreVars
    /\ UNCHANGED serviceVars

\* the endpoints of src/backend_agents/api.py after validation: negotiate_meeting
\* queries the preferred slot of the three agents for its messages, then both
\* endpoints call find_available_slots with is_ai_agent_meeting set
NegotiateWithAiAgent ==
    /\ spc = "validated"
    /\ api_module = "backend_agents_api"
    /\ request.is_ai_agent_meeting
    /\ available_slots' = negotiate_with_ai_agent_api(preferred_datetime(request),
                                                      request.duration_minutes)
    /\ calendar_queries' = calendar_queries + search_queries(request, 3, 5)
                             + (IF endpoint = "negotiate" THEN 3 ELSE 0)
    /\ spc' = "found"
    /\ UNCHANGED <<api_module, now, request, endpoint, slot_index, http_response,
                   commit_result, meeting_participants, api_commits>>
    /\ UNCHANGED dbVars
    /\ UNCHANGED negVars
    /\ UNCHANGED decVars
    /\ UNCHANGED scoreVars
    /\ UNCHANGED serviceVars

\* the endpoints of src/backend_agents/api.py after validation of a request
\* whose is_ai_agent_meeting is false: find_external_meeting_slots_api
FindExternalMeetingSlots ==
    /\ spc = "validated"
    /\ api_module = "backend_agents_api"
    /\ ~request.is_ai_agent_meeting
    /\ available_slots' = find_external_meeting_slots_api(preferred_datetime(request),
                                                          request.duration_minutes)
    /\ calendar_queries' = calendar_queries + search_queries(request, 1, 3)
    /\ spc' = "found"
    /\ UNCHANGED <<api_module, now, request, endpoint, slot_index, http_response,
                   commit_result, meeting_participants, api_commits>>
    /\ UNCHANGED dbVars
    /\ UNCHANGED negVars
    /\ UNCHANGED decVars
    /\ UNCHANGED scoreVars
    /\ UNCHANGED serviceVars

\* the INSERT and UPDATE commands of APINegotiation.schedule_meeting
schedule_commands ==
    {"create_meeting_request", "add_participant_bob", "add_participant_alice",
     "update_meeting_status", "add_block_bob", "add_block_alice"}

\* at most this many commands of one schedule_meeting call raise inside execute_command
MaxFailedCommands == 1

FailedCommands == {failed \in SUBSET schedule_commands : Cardinality(failed) <= MaxFailedCommands}

\* DatabaseManager.execute_command: False without a connection or when the
\* command raises, True otherwise; it never raises itself
execute_command(command, failed) == connection /\ command \notin failed

\* MeetingService.create_meeting_request: a fresh uuid, or None (0) when the INSERT failed
create_meeting_request(table, failed) ==
    IF execute_command("create_meeting_request", failed) THEN Cardinality(table) + 1 ELSE 0

\* meeting_requests after create_meeting_request and update_meeting_status
api_meeting_requests(table, slot, failed) ==
    LET meeting_id == create_meeting_request(table, failed)
        created == IF meeting_id # 0
                   THEN table \cup {[id |-> meeting_id, initiator_id |-> "bob",
                                     duration_minutes |-> slot.duration_minutes,
                                     preferred_start_time |-> slot.start_time,
                                     preferred_end_time |-> slot.end_time,
                                     status |-> "negotiating",
                                     final_scheduled_time |-> -1]}
                   ELSE table
    IN  IF execute_command("update_meeting_status", failed)
        THEN {IF r.id = meeting_id
              THEN [r EXCEPT !.status = "scheduled", !.final_scheduled_time = slot.start_time]
              ELSE r : r \in created}
        ELSE created

\* the users schedule_meeting names in its add_meeting_participant and
\* add_calendar_block calls, less the ones whose command failed
committed_users(prefix, failed) ==
    {u \in {"bob", "alice"} :
        execute_command(IF u = "bob" THEN prefix \o "bob" ELSE prefix \o "alice", failed)}

\* meeting_participants after the two add_meeting_participant calls
api_meeting_participants(table, meeting_id, failed) ==
    table \cup {[meeting_request_id |-> meeting_id, user_id |-> u] :
                   u \in committed_users("add_participant_", failed)}

\* calendar_blocks after the two add_calendar_block calls
api_calendar_blocks(table, slot, failed) ==
    table \cup {Row(u, slot.start_time, slot.end_time, "busy", 8, FALSE) :
                   u \in committed_users("add_block_", failed)}

\* what APINegotiation.schedule_meeting returns: none of its calls raises, so
\* (True, meeting_id), with meeting_id None when the INSERT failed
api_schedule_result(meeting_id) ==
    [called |-> TRUE, success |-> TRUE, meeting_id |-> meeting_id]

\* APINegotiation.schedule_meeting called by `handler` for `slot`
ApiScheduleMeeting(handler, slot, failed) ==
    /\ meeting_requests' = api_meeting_requests(meeting_requests, slot, failed)
    /\ meeting_participants' =
         api_meeting_participants(meeting_participants,
                                  create_meeting_request(meeting_requests, failed), failed)
    /\ calendar_blocks' = api_calendar_blocks(calendar_blocks, slot, failed)
    /\ api_commits' = Append(api_commits,
                             [handler |-> handler, start_time |-> slot.start_time,
                              end_time |-> slot.end_time,
                              users |-> committed_users("add_block_", failed)])

\* negotiate_meeting after the search: src/api.py always answers success;
\* src/backend_agents/api.py answers success=False for an empty list
NegotiateReturns ==
    /\ spc = "found"
    /\ endpoint = "negotiate"
    /\ http_response' =
         IF api_module = "backend_agents_api" /\ available_slots = <<>>
         THEN returned_result(FALSE, "No available time slots found")
         ELSE returned_result(TRUE, "Found available time slots")
    /\ spc' = "responded"
    /\ UNCHANGED <<api_module, now, request, available_slots, endpoint, slot_index,
                   calendar_queries, commit_result, meeting_participants, api_commits>>
    /\ UNCHANGED dbVars
    /\ UNCHANGED negVars
    /\ UNCHANGED decVars
    /\ UNCHANGED scoreVars
    /\ UNCHANGED serviceVars

\* schedule_meeting (endpoint) after the search, with an empty list: src/api.py
\* returns success=False; src/backend_agents/api.py reads the undefined name
\* search_start while building that result, and the NameError leaves as 500
ScheduleNoSlots ==
    /\ spc = "found"
    /\ endpoint = "schedule"
    /\ available_slots = <<>>
    /\ http_response' =
         IF api_module = "api"
         THEN returned_result(FALSE, "No available time slots found")
         ELSE raised_in_endpoint(500)
    /\ spc' = "responded"
    /\ UNCHANGED <<api_module, now, request, available_slots, endpoint, slot_index,
                   calendar_queries, commit_result, meeting_participants, api_commits>>
    /\ UNCHANGED dbVars
    /\ UNCHANGED negVars
    /\ UNCHANGED decVars
    /\ UNCHANGED scoreVars
    /\ UNCHANGED serviceVars

\* schedule_meeting (endpoint) with slot_index beyond the list: HTTPException(400)
ScheduleInvalidIndex ==
    /\ spc = "found"
    /\ endpoint = "schedule"
    /\ available_slots # <<>>
    /\ slot_index >= Len(available_slots)
    /\ http_response' = raised_in_endpoint(400)
    /\ spc' = "responded"
    /\ UNCHANGED <<api_module, now, request, available_slots, endpoint, slot_index,
                   calendar_queries, commit_result, meeting_participants, api_commits>>
    /\ UNCHANGED dbVars
    /\ UNCHANGED negVars
    /\ UNCHANGED decVars
    /\ UNCHANGED scoreVars
    /\ UNCHANGED serviceVars

\* schedule_meeting (endpoint) with a valid slot_index: APINegotiation.schedule_meeting
\* for available_slots[slot_index], then the result built from its (success, meeting_id)
ScheduleSelectedSlot ==
    /\ spc = "found"
    /\ endpoint = "schedule"
    /\ available_slots # <<>>
    /\ ~(slot_index >= Len(available_slots))
    /\ \E failed \in FailedCommands :
        /\ ApiScheduleMeeting("request", available_slots[slot_index + 1], failed)
        /\ \E result \in {api_schedule_result(create_meeting_request(meeting_requests, failed))} :
            /\ commit_result' = result
            /\ http_response' =
                 IF result.success
                 THEN returned_result(TRUE, "Meeting scheduled successfully")
                 ELSE returned_result(FALSE, "Failed to schedule meeting")
    /\ spc' = "responded"
    /\ UNCHANGED <<api_module, now, request, available_slots, endpoint, slot_index,
                   calendar_queries, connection>>
    /\ UNCHANGED negVars
    /\ UNCHANGED decVars
    /\ UNCHANGED scoreVars
    /\ UNCHANGED serviceVars

\* src/backend_agents/api.py: while this handler waits in manager.broadcast
\* (between its search and its schedule_meeting call) the handler of another
\* schedule request with the same preferences runs its search, which returns
\* the same list, and schedules the slot of its own slot_index
OtherHandlerSchedules ==
    /\ spc = "found"
    /\ endpoint = "schedule"
    /\ api_module = "backend_agents_api"
    /\ available_slots # <<>>
    /\ ~(slot_index >= Len(available_slots))
    /\ api_commits = <<>>
    /\ \E other_index \in 1 .. Len(available_slots) :
        ApiScheduleMeeting("other", available_slots[other_index], {})
    /\ UNCHANGED <<api_module, now, request, spc, available_slots, endpoint, slot_index,
                   http_response, calendar_queries, commit_result, connection>>
    /\ UNCHANGED negVars
    /\ UNCHANGED decVars
    /\ UNCHANGED scoreVars
    /\ UNCHANGED serviceVars

NextSearch ==
    \/ ValidateInput
    \/ FindAvailableSlots
    \/ NegotiateWithAiAgent
    \/ FindExternalMeetingSlots
    \/ NegotiateReturns
    \/ ScheduleNoSlots
    \/ ScheduleInvalidIndex
    \/ ScheduleSelectedSlot
    \/ OtherHandlerSchedules

SpecSearch == InitSearch /\ [][NextSearch]_vars

-----------------------------------------------------------------------------
(* claims about Slot Search *)

\* the schedule_meeting call of this request ran and every one of its
\* commands succeeded
AllCommandsSucceeded ==
    /\ commit_result.called
    /\ commit_result.meeting_id # 0
    /\ \E r \in meeting_requests : r.id = commit_result.meeting_id /\ r.status = "scheduled"
    /\ \A u \in {"bob", "alice"} :
          [meeting_request_id |-> commit_result.meeting_id, user_id |-> u] \in meeting_participants
    /\ api_commits[Len(api_commits)].users = {"bob", "alice"}

\* the slot the schedule endpoint handed to schedule_meeting
SelectedSlot == available_slots[slot_index + 1]

\* two schedule_meeting calls inserted blocks for user_id over overlapping intervals
OverlappingCommits(user_id) ==
    \E i, j \in 1 .. Len(api_commits) :
        /\ i < j
        /\ user_id \in api_commits[i].users \cap api_commits[j].users
        /\ api_commits[i].start_time < api_commits[j].end_time
        /\ api_commits[j].start_time < api_commits[i].end_time

\* C11 (as claimed): of two interleaved schedule operations on overlapping
\* intervals at most one inserts its blocks, so that no party holds two
\* overlapping busy blocks created by Meeting Commit
C11_NoOverlappingCommits ==
    \A user_id \in {"bob", "alice", "charlie"} : ~OverlappingCommits(user_id)

\* C12 (as claimed): a search that ran without a database connection (every
\* query failed) is answered with an infrastructure failure, never with a
\* result built from "no conflicts"
C12_QueryFailurePropagates ==
    (spc = "responded" /\ ~connection /\ calendar_queries > 0) =>
        (http_response.status_code = 500 /\ ~http_response.success)

\* the parties of the search that served the request
search_parties == IF api_module = "api" THEN {"bob", "alice"}
                  ELSE {"bob", "alice", "charlie"}

\* C1 (as claimed, for a working database connection): every slot the three-agent
\* search returns has no hard conflict for bob, alice or charlie: no overlapping
\* busy non-moveable block of any priority and no overlapping focus_time block
\* above the party's priority threshold
C1_NoHardConflictInResult ==
    (spc = "found" /\ api_module = "backend_agents_api" /\ connection) =>
        \A i \in 1 .. Len(available_slots) :
            \A user_id \in {"bob", "alice", "charlie"} :
                hard_conflicts(user_id, available_slots[i].start_time,
                               available_slots[i].end_time) = {}

\* C2 (as claimed, for a working database connection and a preferred time on a
\* quarter hour): when a validated request's preferred slot has no overlapping
\* block for any party of the search, the search returns it as its first element
C2_PreferredSlotFirst ==
    (/\ spc = "found"
     /\ connection
     /\ request.preferred_minute \in {0, 15, 30, 45}
     /\ \A user_id \in search_parties :
            overlapping_blocks(user_id, preferred_datetime(request),
                preferred_datetime(request) + request.duration_minutes) = {})
    => (/\ Len(available_slots) >= 1
        /\ available_slots[1].start_time = preferred_datetime(request))

\* C16 (as claimed): a Meeting Commit whose commands all succeed stores the
\* meeting as scheduled with final time t and leaves a busy non-moveable block
\* over exactly [t, t + duration) for every party of the search, charlie included
C16_BlocksForAllParties ==
    AllCommandsSucceeded =>
        /\ \E r \in meeting_requests :
              /\ r.id = commit_result.meeting_id
              /\ r.status = "scheduled"
              /\ r.final_scheduled_time = SelectedSlot.start_time
        /\ \A user_id \in search_parties :
              \E b \in calendar_blocks :
                  /\ b.user_id = user_id
                  /\ b.block_type = "busy" /\ ~b.is_moveable
                  /\ b.start_time = SelectedSlot.start_time
                  /\ b.end_time = SelectedSlot.start_time + request.duration_minutes

\* C17 (as claimed): Meeting Commit reports success, with a meeting id, only
\* if every one of its writes succeeded
C17_SuccessOnlyIfAllWritesSucceeded ==
    (commit_result.called /\ commit_result.success /\ http_response.success) =>
        AllCommandsSucceeded

\* C18 (as claimed): a validated request whose search finds no slot is answered
\* with a normal result, not with an error
C18_NoResultIsNormal ==
    (spc = "responded" /\ connection /\ calendar_queries > 0 /\ available_slots = <<>>) =>
        http_response.status_code = 200

\* a request the input rules exclude: a date or time that does not parse, a
\* weekend, a date outside the range of the API module, a time before 08:00 or
\* after 17:00, a duration that is not listed
ExcludedByInputRules ==
    \/ ~request.parses
    \/ Weekday(At(request.preferred_day, 0, 0)) \in {5, 6}
    \/ (api_module = "api" /\ (request.preferred_day < 0 \/ request.preferred_day > 29))
    \/ (api_module = "backend_agents_api"
        /\ (request.preferred_day < today \/ request.preferred_day > 30))
    \/ request.preferred_hour * 60 + request.preferred_minute < 8 * 60
    \/ request.preferred_hour * 60 + request.preferred_minute > 17 * 60
    \/ request.duration_minutes \notin {15, 30, 45, 60, 90, 120}

\* C19: a request that fails input validation is rejected, and no calendar
\* query, no slot enumeration and no Meeting Commit has been made for it
C19_RejectedBeforeSearch ==
    (api_module # "none" /\ ExcludedByInputRules /\ spc # "received") =>
        /\ spc = "rejected"
        /\ calendar_queries = 0
        /\ available_slots = <<>>
        /\ ~commit_result.called
        /\ api_commits = <<>>
        /\ meeting_requests = {}
        /\ meeting_participants = {}
        /\ calendar_blocks \in Calendars(SearchBlockPool, MaxSearchBlocks)

C19_Witness ==
    /\ spc = "rejected"
    /\ endpoint = "schedule"
    /\ Weekday(At(request.preferred_day, 0, 0)) = 5
    /\ connection
    /\ calendar_blocks # {}

\* C20 (as claimed): an input validation failure reaches the caller with
\* status 400
C20_ValidationFailureIs400 ==
    spc = "rejected" => http_response.status_code = 400

-----------------------------------------------------------------------------
(* the decision engines: @agent1_pappu/decision_engine.py (DecisionEngine),
   @agent1_pappu/agent_personalities.py (PersonalityFactory) and
   @agent2_alice/decision_engine.py (AliceDecisionEngine) *)

\* a CalendarBlock of the engine's calendar
CalendarBlock(id, title, start, end, type, priority, moveable) ==
    [id |-> id, title |-> title, start_time |-> start, end_time |-> end,
     block_type |-> type, priority |-> priority, is_moveable |-> moveable]

\* get_priority_threshold of the personality class create_personality picks;
\* an unknown type falls back to CollaborativePersonality
personality_priority_threshold(personality_type) ==
    IF personality_type = "strict" THEN 8
    ELSE IF personality_type = "flexible" THEN 3
    ELSE IF personality_type = "focused" THEN 7
    ELSE 6

\* get_flexibility_score of the personality class create_personality picks
personality_flexibility_score(personality_type) ==
    IF personality_type = "strict" THEN 3
    ELSE IF personality_type = "flexible" THEN 9
    ELSE IF personality_type = "focused" THEN 4
    ELSE 7

\* PersonalityFactory.create_decision_engine: DecisionEngine(personality_type)
\* with the flexibility score and the threshold of the personality
create_decision_engine(personality_type) ==
    [class |-> "DecisionEngine", personality |-> personality_type,
     flexibility_score |-> personality_flexibility_score(personality_type),
     priority_threshold |-> personality_priority_threshold(personality_type)]

\* DecisionEngine() and AliceDecisionEngine() with their defaults
default_decision_engine ==
    [class |-> "DecisionEngine", personality |-> "collaborative", flexibility_score |-> 5,
     priority_threshold |-> 5]
alice_decision_engine ==
    [class |-> "AliceDecisionEngine", personality |-> "focused", flexibility_score |-> 4,
     priority_threshold |-> 7]

\* the duration both evaluate_time_proposal methods assume
default_duration == 60

\* a conflict check that also depends on the database connection
check_time_conflicts_unless_offline(start_time, end_time, blocks, threshold) ==
    IF ~connection THEN {}
    ELSE {[kind |-> "flexible block", title |-> b.title, id |-> b.id] :
            b \in {c \in blocks :
                      /\ start_time < c.end_time /\ end_time > c.start_time
                      /\ \/ c.block_type = "focus_time" /\ c.priority > threshold
                         \/ c.block_type = "busy" /\ ~c.is_moveable
                         \/ c.block_type = "flexible"}}

\* _check_time_conflicts of both engines: one conflict string per overlapping
\* block that is focus time above the threshold, a fixed meeting, or flexible
check_time_conflicts(start_time, end_time, blocks, threshold) ==
    {[kind |-> IF b.block_type = "focus_time" /\ b.priority > threshold
               THEN "high-priority focus time"
               ELSE IF b.block_type = "busy" /\ ~b.is_moveable THEN "fixed meeting"
               ELSE "flexible block",
      title |-> b.title, id |-> b.id] :
        b \in {c \in blocks :
                  /\ start_time < c.end_time /\ end_time > c.start_time
                  /\ \/ c.block_type = "focus_time" /\ c.priority > threshold
                     \/ c.block_type = "busy" /\ ~c.is_moveable
                     \/ c.block_type = "flexible"}}

\* a collaborative profile that tolerates no conflict
determine_acceptability_none_tolerated(personality, conflicts) ==
    IF conflicts = {} THEN TRUE
    ELSE IF personality = "flexible" THEN Cardinality(conflicts) <= 2
    ELSE FALSE

\* DecisionEngine._determine_acceptability
determine_acceptability(personality, conflicts) ==
    IF conflicts = {} THEN TRUE
    ELSE IF personality = "collaborative" THEN Cardinality(conflicts) <= 1
    ELSE IF personality = "strict" THEN Cardinality(conflicts) = 0
    ELSE IF personality = "flexible" THEN Cardinality(conflicts) <= 2
    ELSE FALSE

\* "focus time" in c.lower() for the conflict string c
mentions_focus_time(conflict) ==
    conflict.kind = "high-priority focus time" \/ conflict.title = "Focus Time"

\* AliceDecisionEngine._determine_acceptability
determine_acceptability_alice(conflicts) ==
    IF conflicts = {} THEN TRUE
    ELSE IF {c \in conflicts : mentions_focus_time(c)} # {} THEN FALSE
    ELSE Cardinality(conflicts) <= 1

\* the dictionary evaluate_time_proposal returns
evaluate_time_proposal(acceptable, conflicts) ==
    [evaluated |-> TRUE, acceptable |-> acceptable, conflicts |-> conflicts]

-----------------------------------------------------------------------------
(* the bounds of the decision model *)

\* at most this many blocks in the calendar an engine evaluates against
MaxEngineBlocks == 3

\* the candidate blocks, on one day in minutes: the two kinds of block of
\* _get_agent_calendar (moveable focus time of priority 8, fixed meeting of
\* priority 6), three flexible blocks, focus time of low priority, a moveable
\* meeting, and a fixed meeting later in the day
EngineBlockPool ==
    {CalendarBlock(1, "Focus Time", 540, 660, "focus_time", 8, TRUE),
     CalendarBlock(2, "Team Meeting", 600, 660, "busy", 6, FALSE),
     CalendarBlock(3, "Lunch", 630, 690, "flexible", 3, TRUE),
     CalendarBlock(4, "Gym", 600, 615, "flexible", 2, TRUE),
     CalendarBlock(5, "Errand", 645, 700, "flexible", 2, TRUE),
     CalendarBlock(6, "Focus Time", 600, 660, "focus_time", 5, FALSE),
     CalendarBlock(7, "Call", 600, 660, "busy", 5, TRUE),
     CalendarBlock(8, "Team Meeting", 700, 760, "busy", 6, FALSE)}

\* the engines the model explores
Engines ==
    {default_decision_engine, alice_decision_engine}
    \cup {create_decision_engine(personality_type) :
            personality_type \in {"collaborative", "strict", "flexible", "focused", "relaxed"}}

\* the proposed times the model explores
ProposedTimes == {600, 690}

DecideIdleSearch ==
    /\ api_module = "none"
    /\ now = 0
    /\ request = [preferred_day |-> 0, preferred_hour |-> 0, preferred_minute |-> 0,
                  duration_minutes |-> 0, parses |-> TRUE,
                  is_ai_agent_meeting |-> TRUE]
    /\ spc = "idle"
    /\ available_slots = <<>>
    /\ endpoint = "none"
    /\ slot_index = 0
    /\ http_response = NoHttpResponse
    /\ calendar_queries = 0
    /\ commit_result = NoCommitResult
    /\ meeting_participants = {}
    /\ api_commits = <<>>

\* an agent holds an engine and receives a time proposal
InitDecide ==
    /\ calendar_blocks = {}
    /\ connection \in BOOLEAN
    /\ meeting_requests = {}
    /\ SearchIdleNeg
    /\ DecideIdleSearch
    /\ engine \in Engines
    /\ agent_calendar \in Calendars(EngineBlockPool, MaxEngineBlocks)
    /\ proposal \in {{t} : t \in ProposedTimes}
    /\ evaluation = NoEvaluation
    /\ IdleScore
    /\ IdleAgent
    /\ IdleCharlie
    /\ IdleBroadcast

ProposedTime == CHOOSE t \in proposal : TRUE

\* DecisionEngine.evaluate_time_proposal over the calendar_blocks list it is given
EvaluateTimeProposal ==
    /\ engine.class = "DecisionEngine"
    /\ ~evaluation.evaluated
    /\ \E conflicts \in {check_time_conflicts(ProposedTime, ProposedTime + default_duration,
                                             agent_calendar, engine.priority_threshold)} :
        evaluation' = evaluate_time_proposal(
                          determine_acceptability(engine.personality, conflicts), conflicts)
    /\ UNCHANGED <<engine, agent_calendar, proposal>>
    /\ UNCHANGED dbVars
    /\ UNCHANGED negVars
    /\ UNCHANGED searchVars
    /\ UNCHANGED scoreVars
    /\ UNCHANGED serviceVars

\* AliceDecisionEngine.evaluate_time_proposal: the calendar comes from
\* get_user_calendar_blocks, that is through execute_query
AliceEvaluateTimeProposal ==
    /\ engine.class = "AliceDecisionEngine"
    /\ ~evaluation.evaluated
    /\ \E conflicts \in {check_time_conflicts(ProposedTime, ProposedTime + default_duration,
                                             execute_query(agent_calendar),
                                             engine.priority_threshold)} :
        evaluation' = evaluate_time_proposal(determine_acceptability_alice(conflicts), conflicts)
    /\ UNCHANGED <<engine, agent_calendar, proposal>>
    /\ UNCHANGED dbVars
    /\ UNCHANGED negVars
    /\ UNCHANGED searchVars
    /\ UNCHANGED scoreVars
    /\ UNCHANGED serviceVars

NextDecide == EvaluateTimeProposal \/ AliceEvaluateTimeProposal

SpecDecide == InitDecide /\ [][NextDecide]_vars

-----------------------------------------------------------------------------
(* claims about the decision engines *)

\* the blocks of the calendar the proposed interval overlaps
OverlappingBlocks ==
    {b \in agent_calendar :
        ProposedTime < b.end_time /\ ProposedTime + default_duration > b.start_time}

\* overlapped busy non-moveable blocks and focus_time blocks above the threshold
HardConflicts ==
    {b \in OverlappingBlocks :
        \/ b.block_type = "busy" /\ ~b.is_moveable
        \/ b.block_type = "focus_time" /\ b.priority > engine.priority_threshold}

\* overlapped flexible blocks
SoftConflicts == {b \in OverlappingBlocks : b.block_type = "flexible"}

\* C13: an engine that could read its calendar answers acceptable only when
\* the proposed interval has no hard conflict, whatever the profile
C13_NoAcceptanceWithHardConflict ==
    (evaluation.evaluated /\ connection /\ evaluation.acceptable) => HardConflicts = {}

\* C14: Alice's engine rejects every proposal whose interval overlaps one of
\* her focus_time blocks, whatever the block's priority and moveable flag
C14_FocusedRejectsAnyFocusOverlap ==
    (/\ engine.class = "AliceDecisionEngine"
     /\ evaluation.evaluated
     /\ connection
     /\ \E b \in OverlappingBlocks : b.block_type = "focus_time")
        => ~evaluation.acceptable

\* the conflict-count tolerance the profiles are said to have
Tolerance(personality) ==
    IF personality = "strict" THEN 0 ELSE IF personality = "collaborative" THEN 1 ELSE 2

\* C15: with soft conflicts only, a strict, collaborative or flexible
\* DecisionEngine accepts exactly when the number of soft conflicts is at
\* most 0, 1 or 2 respectively
C15_SoftConflictsWithinTolerance ==
    (/\ engine.class = "DecisionEngine"
     /\ engine.personality \in {"strict", "collaborative", "flexible"}
     /\ evaluation.evaluated
     /\ HardConflicts = {})
        => (evaluation.acceptable
                <=> Cardinality(SoftConflicts) <= Tolerance(engine.personality))

\* a collaborative engine has accepted one soft conflict, and a flexible
\* engine has refused three
C15_Witness ==
    /\ engine.class = "DecisionEngine"
    /\ evaluation.evaluated
    /\ HardConflicts = {}
    /\ \/ /\ engine.personality = "collaborative"
          /\ Cardinality(SoftConflicts) = 1
          /\ evaluation.acceptable
       \/ /\ engine.personality = "flexible"
          /\ Cardinality(SoftConflicts) = 3
          /\ ~evaluation.acceptable

-----------------------------------------------------------------------------
(* claims about the slots Slot Search returns *)

\* the slots of the list a search returned
ReturnedSlots == {available_slots[i] : i \in 1 .. Len(available_slots)}

\* C21: every slot a search returns starts on a weekday at or after 08:00, ends
\* at or before 17:00 of that day, and has the duration of the request
C21_SlotsWithinBusinessHours ==
    \A slot \in ReturnedSlots :
        /\ Weekday(slot.start_time) < 5
        /\ HourOf(slot.start_time) >= 8
        /\ slot.end_time <= At(DayOf(slot.start_time), 17, 0)
        /\ slot.end_time - slot.start_time = request.duration_minutes
        /\ slot.duration_minutes = request.duration_minutes

\* a search has returned a slot that starts in the last business hour
C21_Witness ==
    /\ spc = "found"
    /\ \E slot \in ReturnedSlots : HourOf(slot.start_time) = 16

\* C22: every proposal on the table of the negotiation loop is on a weekday,
\* lies within 08:00-17:00 and has one of the allowed durations
C22_ProposalsWithinBusinessHours ==
    \A t \in current_proposal :
        /\ Weekday(t) < 5
        /\ HourOf(t) >= 8
        /\ t + TheDuration <= At(DayOf(t), 17, 0)
        /\ TheDuration \in allowed_durations

\* the search that served the request: its reach in days, the length of its
\* list, its window, its test of a candidate and its score of a candidate
ThreeAgentSearch == api_module = "backend_agents_api" /\ request.is_ai_agent_meeting
DaysAround == IF ThreeAgentSearch THEN 5 ELSE 3
ListLimit == IF api_module = "api" THEN 5 ELSE 3
WindowStart ==
    IF api_module = "api" \/ preferred_datetime(request) - DaysAround * MinutesPerDay >= At(today, 0, 0)
    THEN preferred_datetime(request) - DaysAround * MinutesPerDay ELSE At(today, 0, 0)
WindowEnd ==
    IF api_module = "api" \/ preferred_datetime(request) + DaysAround * MinutesPerDay <= At(30, 23, 59)
    THEN preferred_datetime(request) + DaysAround * MinutesPerDay ELSE At(30, 23, 59)

SearchFree(ts) ==
    LET te == ts + request.duration_minutes
    IN  IF ThreeAgentSearch
        THEN /\ ~has_conflict(check_time_conflict("bob", ts, te), 7)
             /\ ~has_conflict(check_time_conflict("alice", ts, te), 8)
             /\ ~has_conflict(check_time_conflict("charlie", ts, te), 6)
        ELSE IF api_module = "api"
        THEN check_time_conflict("bob", ts, te) = {} /\ check_time_conflict("alice", ts, te) = {}
        ELSE check_time_conflict("bob", ts, te) = {}

SlotScore(ts) ==
    LET te == ts + request.duration_minutes
    IN  IF ThreeAgentSearch
        THEN calculate_3agent_slot_quality(ts, preferred_datetime(request),
                 check_time_conflict("bob", ts, te), check_time_conflict("alice", ts, te),
                 check_time_conflict("charlie", ts, te))
        ELSE IF api_module = "api" THEN calculate_slot_quality(ts, preferred_datetime(request))
        ELSE calculate_slot_quality_backend_api(ts, preferred_datetime(request))

\* the starts of the window on a weekday, on a quarter hour from 08:00 on, whose
\* end does not cross 17:00
StartsUpToClose ==
    {ts \in {At(day, hour, minute) :
                day \in {d \in DayOf(WindowStart) .. DayOf(WindowEnd) : Weekday(At(d, 0, 0)) < 5},
                hour \in 8 .. 16,
                minute \in {0, 15, 30, 45}} :
        ts + request.duration_minutes <= At(DayOf(ts), 17, 0)}

\* ts comes after every returned slot in the order of the list: a lower score,
\* or the same score and a later start
RankedAfterReturned(ts) ==
    \E score \in {SlotScore(ts)} :
        \A slot \in ReturnedSlots :
            \/ slot.quality_score > score
            \/ slot.quality_score = score /\ slot.start_time < ts

\* C23 (as claimed, for a working database connection): every start of the window whose end does not cross 17:00,
\* a slot ending exactly at 17:00 included, takes part in the ranking when it is
\* free: it is returned, unless the list is full of slots that rank before it
C23_NoFreeSlotOmitted ==
    (spc = "found" /\ connection) =>
        \A ts \in StartsUpToClose :
            (SearchFree(ts) /\ ts \notin {slot.start_time : slot \in ReturnedSlots})
                => (Len(available_slots) = ListLimit /\ RankedAfterReturned(ts))

\* the dates validate_input of the serving module lets through
InValidDateRange(day) ==
    IF api_module = "api" THEN 0 <= day /\ day <= 29 ELSE today <= day /\ day <= 30

\* C24 (as claimed, for a working database connection): no returned slot starts
\* before the time at which the search runs, and every returned slot lies on a
\* date that input validation would accept
C24_SlotsNotPastAndInRange ==
    (spc = "found" /\ connection) =>
        \A slot \in ReturnedSlots :
            /\ slot.start_time >= now
            /\ InValidDateRange(DayOf(slot.start_time))

\* the free candidates of the search that are not in the returned list
LeftOut ==
    {ts \in working_hours_candidates(WindowStart, WindowEnd, request.duration_minutes) :
        SearchFree(ts) /\ ts \notin {slot.start_time : slot \in ReturnedSlots}}

\* C25: the returned list is in order of score, highest first, equal scores in
\* order of start; it holds at most 5 (src/api.py) or 3 (backend) slots; and
\* every free candidate left out ranks after every returned slot
C25_RankedTopN ==
    spc = "found" =>
        /\ \A i, j \in 1 .. Len(available_slots) :
              i < j => \/ available_slots[i].quality_score > available_slots[j].quality_score
                       \/ /\ available_slots[i].quality_score = available_slots[j].quality_score
                          /\ available_slots[i].start_time < available_slots[j].start_time
        /\ Len(available_slots) <= ListLimit
        /\ \A ts \in LeftOut : Len(available_slots) = ListLimit /\ RankedAfterReturned(ts)

\* a search has returned two slots of equal score and left a free candidate out
C25_Witness ==
    /\ spc = "found"
    /\ LeftOut # {}
    /\ \E i, j \in 1 .. Len(available_slots) :
          i < j /\ available_slots[i].quality_score = available_slots[j].quality_score

\* the starts of the returned slots
ReturnedStarts == {slot.start_time : slot \in ReturnedSlots}

\* Scenario A: bob or alice holds a fixed meeting Monday 10:00-11:00 and nothing
\* else is in the calendars; the request is Monday 10:00 for 30 minutes
ScenarioA ==
    /\ \E u \in {"bob", "alice"} :
          calendar_blocks = {Row(u, At(2, 10, 0), At(2, 11, 0), "busy", 5, FALSE)}
    /\ preferred_datetime(request) = At(2, 10, 0)
    /\ request.duration_minutes = 30

\* C26: in the two-party search with a working database connection, a candidate
\* that overlaps a busy non-moveable block of bob or alice (block start before
\* candidate end and block end after candidate start) is excluded, a candidate
\* that overlaps no block, though it may touch one, is kept as free; in
\* Scenario A the result leaves 10:00 out and contains 09:00, 09:30 and 11:00
C26_OverlapExcludesTouchingKept ==
    (spc = "found" /\ api_module = "api" /\ connection) =>
        /\ \A ts \in working_hours_candidates(WindowStart, WindowEnd, request.duration_minutes) :
              /\ (\E b \in calendar_blocks :
                     /\ b.user_id \in {"bob", "alice"}
                     /\ b.block_type = "busy" /\ ~b.is_moveable
                     /\ b.start_time < ts + request.duration_minutes
                     /\ b.end_time > ts)
                  => (~SearchFree(ts) /\ ts \notin ReturnedStarts)
              /\ (~\E b \in calendar_blocks :
                     /\ b.user_id \in {"bob", "alice"}
                     /\ b.start_time < ts + request.duration_minutes
                     /\ b.end_time > ts)
                  => SearchFree(ts)
        /\ ScenarioA =>
              /\ At(2, 10, 0) \notin ReturnedStarts
              /\ {At(2, 9, 0), At(2, 9, 30), At(2, 11, 0)} \subseteq ReturnedStarts

\* the two-party search has answered Scenario A
C26_Witness ==
    /\ spc = "found"
    /\ api_module = "api"
    /\ connection
    /\ ScenarioA
    /\ At(2, 11, 0) \in ReturnedStarts

-----------------------------------------------------------------------------
(* a specification of the scorer calls *)

\* the calls the model explores: a slot on Monday 2025-09-29 to Wednesday
\* 2025-10-01 between 07:00 and 18:45, a second slot at the same time of day
\* on another of these days, a preferred time on Monday or Tuesday
ScoreDays == {2, 3, 4}
ScoreHours == 7 .. 18
ScoreMinutes == {0, 15, 30, 45}
PreferredTimes == {At(2, 8, 0), At(2, 10, 0), At(2, 16, 20), At(3, 10, 0), At(3, 13, 30)}

ScoreIdleSearch ==
    /\ api_module = "none"
    /\ now = 0
    /\ request = [preferred_day |-> 0, preferred_hour |-> 0, preferred_minute |-> 0,
                  duration_minutes |-> 0, parses |-> TRUE,
                  is_ai_agent_meeting |-> TRUE]
    /\ spc = "idle"
    /\ available_slots = <<>>
    /\ endpoint = "none"
    /\ slot_index = 0
    /\ http_response = NoHttpResponse
    /\ calendar_queries = 0
    /\ commit_result = NoCommitResult
    /\ meeting_participants = {}
    /\ api_commits = <<>>

\* a search is about to score two candidates against a preferred time
InitScore ==
    /\ calendar_blocks = {}
    /\ connection = TRUE
    /\ meeting_requests = {}
    /\ SearchIdleNeg
    /\ ScoreIdleSearch
    /\ IdleDecision
    /\ IdleAgent
    /\ IdleCharlie
    /\ IdleBroadcast
    /\ \E day \in ScoreDays, other_day \in ScoreDays, hour \in ScoreHours,
          minute \in ScoreMinutes, preferred \in PreferredTimes :
          score_call = [slot_time |-> At(day, hour, minute),
                        other_slot_time |-> At(other_day, hour, minute),
                        preferred_time |-> preferred]
    /\ quality_score = NoQualityScore

\* the three copies score the first slot, src/api.py's scores the second
CalculateSlotQuality ==
    /\ ~quality_score.scored
    /\ quality_score' =
          [scored |-> TRUE,
           api |-> calculate_slot_quality(score_call.slot_time, score_call.preferred_time),
           backend_api |-> calculate_slot_quality_backend_api(score_call.slot_time,
                                                              score_call.preferred_time),
           backend_test |-> calculate_slot_quality_backend_test(score_call.slot_time,
                                                                score_call.preferred_time),
           other |-> calculate_slot_quality(score_call.other_slot_time,
                                            score_call.preferred_time)]
    /\ UNCHANGED score_call
    /\ UNCHANGED dbVars
    /\ UNCHANGED negVars
    /\ UNCHANGED searchVars
    /\ UNCHANGED decVars
    /\ UNCHANGED serviceVars

NextScore == CalculateSlotQuality

SpecScore == InitScore /\ [][NextScore]_vars

-----------------------------------------------------------------------------
(* claims about the scorer *)

Distance(a, b) == IF a >= b THEN a - b ELSE b - a

\* C27: of two candidates at the same hour and minute of day, the one closer
\* to the preferred time never gets the lower score from calculate_slot_quality
C27_CloserNeverScoresLower ==
    (/\ quality_score.scored
     /\ HourOf(score_call.slot_time) = HourOf(score_call.other_slot_time)
     /\ MinuteOf(score_call.slot_time) = MinuteOf(score_call.other_slot_time)
     /\ Distance(score_call.slot_time, score_call.preferred_time)
            < Distance(score_call.other_slot_time, score_call.preferred_time))
        => quality_score.api >= quality_score.other

\* the closer slot is within an hour of the preferred time, the other a day away
C27_Witness ==
    /\ quality_score.scored
    /\ Distance(score_call.slot_time, score_call.preferred_time) <= 60
    /\ Distance(score_call.other_slot_time, score_call.preferred_time) >= MinutesPerDay - 60
    /\ quality_score.api > quality_score.other

\* the score as the claim states it
StatedBase(distance) ==
    IF distance = 0 THEN 100
    ELSE IF distance <= 60 THEN 80
    ELSE IF distance <= 120 THEN 60
    ELSE IF distance <= 240 THEN 40
    ELSE 20
StatedTimeOfDayBonus(hour) ==
    IF hour \in 9 .. 11 THEN 10
    ELSE IF hour \in 14 .. 16 THEN 8
    ELSE IF hour \in 8 .. 9 THEN 6
    ELSE IF hour \in 16 .. 17 THEN 4
    ELSE 0
StatedRoundTimeBonus(minute) == IF minute = 0 THEN 5 ELSE IF minute = 30 THEN 3 ELSE 0

\* C28: calculate_slot_quality is the stated base plus the stated time-of-day
\* bonus plus the stated round-time bonus, and the copies of src/api.py,
\* backend_agents/api.py and backend_agents/test.py return the same value
C28_ScoreAsStatedInAllCopies ==
    quality_score.scored =>
        /\ quality_score.api =
              StatedBase(Distance(score_call.slot_time, score_call.preferred_time))
              + StatedTimeOfDayBonus(HourOf(score_call.slot_time))
              + StatedRoundTimeBonus(MinuteOf(score_call.slot_time))
        /\ quality_score.backend_api = quality_score.api
        /\ quality_score.backend_test = quality_score.api

\* a slot at 09:30, between one and two hours from the preferred time, scored 73
C28_Witness ==
    /\ quality_score.scored
    /\ HourOf(score_call.slot_time) = 9
    /\ MinuteOf(score_call.slot_time) = 30
    /\ quality_score.api = 73
    /\ quality_score.backend_test = 73

-----------------------------------------------------------------------------
(* claims about the trace and the effects of a negotiation run *)

\* a transition of the negotiation loop: the initial proposal is put on the
\* table, or a round ends in an acceptance, a counter-proposal or a rejection,
\* or the rounds run out
LoopTransition ==
    \/ pc = "send" /\ pc' = "loop"
    \/ pc = "loop" /\ (round_num' # round_num \/ outcome' # outcome)

\* C29 (as claimed): every transition of the negotiation loop, the forced
\* Exhausted transition included, appends exactly one entry to negotiation_log
C29_EveryTransitionLogged ==
    [][LoopTransition =>
          /\ Len(negotiation_log') = Len(negotiation_log) + 1
          /\ SubSeq(negotiation_log', 1, Len(negotiation_log)) = negotiation_log]_vars

\* C30: a run that ends Rejected or Exhausted has stored no meeting, and no
\* step other than the one that reaches Accepted changes the calendars or the
\* meeting store
C30_NoEffectUnlessAccepted ==
    /\ [](outcome \in {"Rejected", "Exhausted"}
            => (meeting_requests = {} /\ scheduled_meeting = {}))
    /\ [][outcome' # "Accepted"
            => (calendar_blocks' = calendar_blocks /\ meeting_requests' = meeting_requests)]_vars

\* a run over a working database has ended in a rejection
C30_Witness ==
    /\ outcome = "Rejected"
    /\ connection
    /\ round_num >= 1
    /\ calendar_blocks # {}

-----------------------------------------------------------------------------
(* claims about the exact match under the scorers *)

\* every start the scored calls range over
ScoredStarts ==
    {At(day, hour, minute) : day \in ScoreDays, hour \in ScoreHours, minute \in ScoreMinutes}

\* C33: calculate_slot_quality gives a candidate that starts at the preferred
\* start a strictly higher score than any candidate with another start, at
\* every hour and minute, and every score lies between 20 and 115
C33_ExactMatchScoresStrictlyHighest ==
    quality_score.scored =>
        /\ quality_score.api \in 20 .. 115
        /\ quality_score.other \in 20 .. 115
        /\ score_call.slot_time = score_call.preferred_time =>
              \A other_start \in ScoredStarts \ {score_call.preferred_time} :
                  calculate_slot_quality(other_start, score_call.preferred_time)
                      < quality_score.api

\* an exact match at 13:30 scored 103, the lowest an exact match gets here,
\* next to a candidate a day away
C33_Witness ==
    /\ quality_score.scored
    /\ score_call.slot_time = score_call.preferred_time
    /\ score_call.other_slot_time # score_call.preferred_time
    /\ quality_score.api = 103
    /\ quality_score.other < 103

\* C32 (as claimed): in a 3-agent search whose preferred start is a candidate
\* with no overlapping block for bob, alice or charlie, no returned slot scores
\* above the preferred start under calculate_3agent_slot_quality, and the
\* preferred start heads the list
C32_ExactMatchRanksFirstOfThreeAgents ==
    (/\ spc = "found"
     /\ ThreeAgentSearch
     /\ connection
     /\ preferred_datetime(request) \in StartsUpToClose
     /\ preferred_datetime(request) + request.duration_minutes < At(request.preferred_day, 17, 0)
     /\ preferred_datetime(request) >= now
     /\ \A user_id \in {"bob", "alice", "charlie"} :
            check_time_conflict(user_id, preferred_datetime(request),
                preferred_datetime(request) + request.duration_minutes) = {})
    => (/\ \A slot \in ReturnedSlots :
              slot.quality_score <= SlotScore(preferred_datetime(request))
        /\ Len(available_slots) >= 1
        /\ available_slots[1].start_time = preferred_datetime(request))

-----------------------------------------------------------------------------
(* claims about the interval a proposal is evaluated over *)

\* the conflicts of the engine's calendar with [ProposedTime, ProposedTime + duration)
ConflictsOver(duration) ==
    check_time_conflicts(ProposedTime, ProposedTime + duration, agent_calendar,
                         engine.priority_threshold)

\* C36 (as claimed, for an engine that could read its calendar): evaluate_time_proposal
\* reports a conflict exactly when a conflicting block overlaps the interval the
\* meeting would occupy, for every allowed duration of the meeting
C36_EvaluatedOverMeetingInterval ==
    (evaluation.evaluated /\ connection) =>
        \A duration_minutes \in allowed_durations :
            (evaluation.conflicts # {}) <=> (ConflictsOver(duration_minutes) # {})

-----------------------------------------------------------------------------
(* claims about the conflict classification as a function *)

\* the blocks the engine handed to _check_time_conflicts
BlocksChecked ==
    IF engine.class = "AliceDecisionEngine" THEN execute_query(agent_calendar) ELSE agent_calendar

\* the blocks that count as conflicts, from the interval, the blocks and the
\* priority threshold alone
ClassifiedFromInputs ==
    {b \in BlocksChecked :
        /\ ProposedTime < b.end_time
        /\ ProposedTime + default_duration > b.start_time
        /\ \/ b.block_type = "focus_time" /\ b.priority > engine.priority_threshold
           \/ b.block_type = "busy" /\ ~b.is_moveable
           \/ b.block_type = "flexible"}

-----------------------------------------------------------------------------
(* the agents: @agent1_pappu/scheduling_agent.py over DecisionEngine and
   @agent2_alice/alice_agent.py over AliceDecisionEngine, exchanging the models
   of @agent2_alice/models.py; confidence scores are in hundredths *)

\* a MeetingRequest, NegotiationMessage, TimeProposal or AgentResponse; an
\* Optional field is {} for None, and confidence_score is {} in a model that
\* has no such field
Message(model, message_type, preferred_start_time, proposed_time, duration_minutes, success, text, confidence_score) ==
    [model |-> model, message_type |-> message_type,
     preferred_start_time |-> preferred_start_time, proposed_time |-> proposed_time,
     duration_minutes |-> duration_minutes, success |-> success, message |-> text,
     confidence_score |-> confidence_score]

\* AgentResponse(success=..., message=..., data=...); data carries the proposal or
\* counter-proposal, if any
AgentResponse(success, text, proposed_time, confidence_score) ==
    Message("AgentResponse", "none", {}, proposed_time, 0, success, text, confidence_score)

\* TimeProposal(proposed_time=..., confidence_score=...): the constructor raises
\* a validation error unless 0.0 <= confidence_score <= 1.0
TimeProposal(proposed_time, confidence_score) ==
    [raises |-> ~(0 <= confidence_score /\ confidence_score <= 100), is_none |-> FALSE,
     proposed_time |-> proposed_time, confidence_score |-> confidence_score]

\* DecisionEngine._get_agent_calendar at time t: focus time two to four hours
\* ahead, a fixed team meeting six to seven hours ahead
get_agent_calendar(t) ==
    {CalendarBlock(1, "Focus Time", t + 120, t + 240, "focus_time", 8, TRUE),
     CalendarBlock(2, "Team Meeting", t + 360, t + 420, "busy", 6, FALSE)}

\* the calendar the agent's engine works on: the simulated one, or for Alice
\* calendar_service.get_user_calendar_blocks
engine_calendar ==
    IF engine.class = "AliceDecisionEngine" THEN execute_query(agent_calendar)
    ELSE get_agent_calendar(now)

\* DecisionEngine._find_alternative_times: 2, 4, 6 and 8 hours from now
find_alternative_times(t, duration_minutes, blocks, threshold) ==
    {[start |-> t + i * 120, confidence |-> 90 - i * 10] :
        i \in {j \in 1 .. 4 :
                 check_time_conflicts(t + j * 120, t + j * 120 + duration_minutes,
                                      blocks, threshold) = {}}}

\* AliceDecisionEngine._find_alternative_times: every hour from 9 AM today up to
\* seven days from now; a weekend day is skipped and the day after it starts at
\* 9 AM again; the hour from 12 is skipped; mornings get the higher confidence
alice_find_alternative_times(t, duration_minutes, blocks, threshold) ==
    LET visited ==
            {current_time \in {At(day, hour, 0) : day \in DayOf(t) .. DayOf(t) + 7,
                                                  hour \in 0 .. 23} :
                /\ current_time >= At(DayOf(t), 9, 0)
                /\ current_time < t + 7 * MinutesPerDay
                /\ Weekday(current_time) < 5
                /\ Weekday(current_time) = 0 => HourOf(current_time) >= 9
                /\ HourOf(current_time) # 12}
    IN  {[start |-> current_time,
          confidence |-> IF 9 <= HourOf(current_time) /\ HourOf(current_time) < 12
                         THEN 90 ELSE 80] :
            current_time \in {c \in visited :
                                 check_time_conflicts(c, c + duration_minutes,
                                                      blocks, threshold) = {}}}

\* DecisionEngine._find_alternative_times_near: the six offsets around the
\* original time, each checked over 60 minutes, confidence 0.8 - abs(offset) * 0.01
find_alternative_times_near(original_time, blocks, threshold) ==
    {[start |-> original_time + offset,
      confidence |-> 80 - (IF offset < 0 THEN -offset ELSE offset)] :
        offset \in {o \in {-30, 30, -60, 60, -90, 90} :
                       check_time_conflicts(original_time + o, original_time + o + 60,
                                            blocks, threshold) = {}}}

\* element [0] of a list of alternatives that was built in the order of the
\* loop and then sorted by confidence, highest first (the sort is stable)
first_alternative(alternatives) ==
    CHOOSE a \in alternatives :
        \A b \in alternatives :
            \/ a.confidence > b.confidence
            \/ a.confidence = b.confidence /\ a.start <= b.start

\* DecisionEngine.analyze_meeting_request
analyze_meeting_request(req, t, eng) ==
    LET blocks == get_agent_calendar(t)
        preferred == CHOOSE p \in req.preferred_start_time : TRUE
        conflicts == IF req.preferred_start_time = {} THEN {}
                     ELSE check_time_conflicts(preferred, preferred + req.duration_minutes,
                                               blocks, eng.priority_threshold)
        available_times ==
            IF conflicts # {}
            THEN find_alternative_times(t, req.duration_minutes, blocks, eng.priority_threshold)
            ELSE IF req.preferred_start_time = {} THEN {}
            ELSE {[start |-> preferred, confidence |-> 90]}
    IN  [can_attend |-> available_times # {} \/ eng.flexibility_score >= 7,
         conflicts |-> conflicts, available_times |-> available_times]

\* AliceDecisionEngine.analyze_meeting_request with _determine_attendance
alice_analyze_meeting_request(req, t, eng, blocks) ==
    LET preferred == CHOOSE p \in req.preferred_start_time : TRUE
        conflicts == IF req.preferred_start_time = {} THEN {}
                     ELSE check_time_conflicts(preferred, preferred + req.duration_minutes,
                                               blocks, eng.priority_threshold)
        available_times ==
            IF conflicts # {}
            THEN alice_find_alternative_times(t, req.duration_minutes, blocks,
                                              eng.priority_threshold)
            ELSE IF req.preferred_start_time = {} THEN {}
            ELSE {[start |-> preferred, confidence |-> 90]}
    IN  [can_attend |-> IF conflicts = {} THEN TRUE
                        ELSE IF \E c \in conflicts : mentions_focus_time(c) THEN FALSE
                        ELSE available_times # {},
         conflicts |-> conflicts, available_times |-> available_times]

\* DecisionEngine._generate_flexible_time: two to four hours from now
generate_flexible_time(t, hours_ahead) == t + hours_ahead * 60

\* AliceDecisionEngine._generate_flexible_time: two to four hours from now, moved
\* to 9:00 when before 9 and to 11:00 when after 12
alice_generate_flexible_time(t, hours_ahead) ==
    LET proposed_time == t + hours_ahead * 60
    IN  IF HourOf(proposed_time) < 9 THEN At(DayOf(proposed_time), 9, 0)
        ELSE IF HourOf(proposed_time) > 12 THEN At(DayOf(proposed_time), 11, 0)
        ELSE proposed_time

\* generate_time_proposal with _calculate_confidence_score of both engines: the
\* first available time, or the flexible time when there is none; Alice's
\* engine adds 0.1 for a morning hour
generate_time_proposal(analysis, flexible_time, eng) ==
    LET proposed_time == IF analysis.available_times = {} THEN flexible_time
                         ELSE first_alternative(analysis.available_times).start
        base_confidence ==
              50
            + (IF analysis.conflicts = {} THEN 30 ELSE 0)
            + eng.flexibility_score * 2
            + (IF /\ eng.class = "AliceDecisionEngine"
                  /\ 9 <= HourOf(proposed_time) /\ HourOf(proposed_time) < 12
               THEN 10 ELSE 0)
    IN  TimeProposal(proposed_time, IF base_confidence < 100 THEN base_confidence ELSE 100)

\* evaluate_time_proposal of both engines on a received message: the addition
\* raises for proposed_time None, the "confidence" entry raises for a message
\* without confidence_score
evaluate_received_proposal(msg, blocks, eng) ==
    LET proposed_time == CHOOSE t \in msg.proposed_time : TRUE
        conflicts == IF msg.proposed_time = {} THEN {}
                     ELSE check_time_conflicts(proposed_time, proposed_time + default_duration,
                                               blocks, eng.priority_threshold)
    IN  [raises |-> msg.proposed_time = {} \/ msg.confidence_score = {},
         acceptable |-> IF eng.class = "AliceDecisionEngine"
                        THEN determine_acceptability_alice(conflicts)
                        ELSE determine_acceptability(eng.personality, conflicts),
         conflicts |-> conflicts]

\* generate_counter_proposal of both engines: None without alternatives, else a
\* TimeProposal for the first alternative; the addition raises for proposed_time None
generate_counter_proposal(msg, blocks, eng) ==
    IF msg.proposed_time = {}
    THEN [raises |-> TRUE, is_none |-> FALSE, proposed_time |-> 0, confidence_score |-> 0]
    ELSE LET alternatives ==
                 find_alternative_times_near(CHOOSE t \in msg.proposed_time : TRUE, blocks,
                                             eng.priority_threshold)
         IN  IF alternatives = {}
             THEN [raises |-> FALSE, is_none |-> TRUE, proposed_time |-> 0,
                   confidence_score |-> 0]
             ELSE TimeProposal(first_alternative(alternatives).start,
                               first_alternative(alternatives).confidence)

\* the error_response of the except clause of every handler
error_response == AgentResponse(FALSE, "error", {}, {})

\* the branch of handle_negotiation_message and handle_time_proposal that
\* evaluates a proposal: accept, or reject with or without a counter-proposal
proposal_response(msg, blocks, eng) ==
    LET evaluation_result == evaluate_received_proposal(msg, blocks, eng)
        counter_proposal == generate_counter_proposal(msg, blocks, eng)
    IN  IF evaluation_result.raises THEN error_response
        ELSE IF evaluation_result.acceptable
        THEN AgentResponse(TRUE, "accepted", {}, {})
        ELSE IF counter_proposal.raises THEN error_response
        ELSE IF counter_proposal.is_none
        THEN AgentResponse(FALSE, "rejected, no alternatives", {}, {})
        ELSE AgentResponse(FALSE, "rejected, counter-proposal",
                           {counter_proposal.proposed_time},
                           {counter_proposal.confidence_score})

\* a handler that acknowledges every AgentResponse
agent_response_replies_acknowledging(msg) == <<AgentResponse(TRUE, "acknowledged", {}, {})>>

\* handle_agent_response sends nothing
agent_response_replies(msg) == <<>>

-----------------------------------------------------------------------------
(* the bounds of the agent model *)

\* a handler runs only while fewer messages than this were handled
MaxHandled == 4

\* the times messages speak of: inside the simulated focus time of
\* _get_agent_calendar (02:30 and 03:00 with now = 00:00), and 10:00 and 11:30
AgentTimes == {150, 180, 600, 690}

\* the engines of the two agents: scheduling_agent.py creates its engine through
\* the factory (change_agent_personality replaces it), alice_agent.py holds an
\* AliceDecisionEngine
AgentEngines ==
    {alice_decision_engine}
    \cup {create_decision_engine(personality_type) :
            personality_type \in {"collaborative", "strict", "flexible", "focused"}}

\* the messages an agent receives from its peer
AgentMessages ==
    {Message("MeetingRequest", "none", preferred_start_time, {}, duration_minutes,
             FALSE, "none", {}) :
        preferred_start_time \in {{}} \cup {{t} : t \in AgentTimes},
        duration_minutes \in {30, 60}}
    \cup {Message("NegotiationMessage", message_type, {}, proposed_time, 0, FALSE, "none", {}) :
            message_type \in {"proposal", "counter_proposal", "acceptance", "rejection"},
            proposed_time \in {{}} \cup {{t} : t \in AgentTimes}}
    \cup {Message("TimeProposal", "none", {}, {t}, 0, FALSE, "none", {80}) : t \in AgentTimes}
    \cup {AgentResponse(TRUE, "accepted", {}, {})}

\* the agent that holds the engine, and its peer
agent_name == IF engine.class = "AliceDecisionEngine" THEN "alice" ELSE "pappu"
peer_name == IF engine.class = "AliceDecisionEngine" THEN "pappu" ELSE "alice"

\* an agent is running and a message from its peer is on its way to it
InitAgent ==
    /\ calendar_blocks = {}
    /\ meeting_requests = {}
    /\ SearchIdleNeg
    /\ DecideIdleSearch
    /\ engine \in AgentEngines
    /\ connection \in (IF engine.class = "AliceDecisionEngine" THEN BOOLEAN ELSE {TRUE})
    /\ agent_calendar \in (IF engine.class = "AliceDecisionEngine"
                           THEN Calendars(EngineBlockPool, MaxEngineBlocks) ELSE {{}})
    /\ proposal = {}
    /\ evaluation = NoEvaluation
    /\ IdleScore
    /\ IdleCharlie
    /\ IdleBroadcast
    /\ \E msg \in AgentMessages :
          mailbox = <<[sender |-> peer_name, destination |-> agent_name, payload |-> msg]>>
    /\ handled = <<>>

\* the end of a handler: ctx.send(sender, response) for each response
Reply(responses) ==
    LET envelopes == [i \in 1 .. Len(responses) |->
                         [sender |-> Head(mailbox).destination,
                          destination |-> Head(mailbox).sender,
                          payload |-> responses[i]]]
    IN  /\ mailbox' = Tail(mailbox) \o envelopes
        /\ handled' = Append(handled, [message |-> Head(mailbox), responses |-> envelopes])
        /\ UNCHANGED <<conflict_check, active_connections, closed_connections, broadcast_call>>
        /\ UNCHANGED dbVars
        /\ UNCHANGED negVars
        /\ UNCHANGED searchVars
        /\ UNCHANGED decVars
        /\ UNCHANGED scoreVars

\* handle_meeting_request of both agents
HandleMeetingRequest ==
    /\ mailbox # <<>>
    /\ Len(handled) < MaxHandled
    /\ Head(mailbox).payload.model = "MeetingRequest"
    /\ \E hours_ahead \in 2 .. 4 :
       \E analysis \in {IF engine.class = "AliceDecisionEngine"
                        THEN alice_analyze_meeting_request(Head(mailbox).payload, now, engine,
                                                           engine_calendar)
                        ELSE analyze_meeting_request(Head(mailbox).payload, now, engine)} :
       \E flexible_time \in {IF engine.class = "AliceDecisionEngine"
                             THEN alice_generate_flexible_time(now, hours_ahead)
                             ELSE generate_flexible_time(now, hours_ahead)} :
       \E time_proposal \in {generate_time_proposal(analysis, flexible_time, engine)} :
          Reply(<<IF ~analysis.can_attend
                  THEN AgentResponse(FALSE, "cannot attend", {}, {})
                  ELSE IF time_proposal.raises THEN error_response
                  ELSE AgentResponse(TRUE, "can attend", {time_proposal.proposed_time},
                                     {time_proposal.confidence_score})>>)

\* handle_negotiation_message of both agents
HandleNegotiationMessage ==
    /\ mailbox # <<>>
    /\ Len(handled) < MaxHandled
    /\ Head(mailbox).payload.model = "NegotiationMessage"
    /\ \E msg \in {Head(mailbox).payload} :
       \E counter_proposal \in {generate_counter_proposal(msg, engine_calendar, engine)} :
          Reply(<<IF msg.message_type = "proposal"
                  THEN proposal_response(msg, engine_calendar, engine)
                  ELSE IF msg.message_type = "acceptance"
                  THEN AgentResponse(TRUE, "acceptance received", {}, {})
                  ELSE IF msg.message_type = "rejection"
                  THEN IF counter_proposal.raises THEN error_response
                       ELSE IF counter_proposal.is_none
                       THEN AgentResponse(FALSE, "rejection received, no alternatives", {}, {})
                       ELSE AgentResponse(TRUE, "rejection received, counter-proposal",
                                          {counter_proposal.proposed_time},
                                          {counter_proposal.confidence_score})
                  ELSE AgentResponse(TRUE, "message processed", {}, {})>>)

\* handle_time_proposal of both agents
HandleTimeProposal ==
    /\ mailbox # <<>>
    /\ Len(handled) < MaxHandled
    /\ Head(mailbox).payload.model = "TimeProposal"
    /\ Reply(<<proposal_response(Head(mailbox).payload, engine_calendar, engine)>>)

\* handle_agent_response of both agents
HandleAgentResponse ==
    /\ mailbox # <<>>
    /\ Len(handled) < MaxHandled
    /\ Head(mailbox).payload.model = "AgentResponse"
    /\ Reply(agent_response_replies(Head(mailbox).payload))

NextAgent ==
    \/ HandleMeetingRequest
    \/ HandleNegotiationMessage
    \/ HandleTimeProposal
    \/ HandleAgentResponse

SpecAgent == InitAgent /\ [][NextAgent]_vars

\* the agent framework runs the handler of every message that arrives
FairSpecAgent == SpecAgent /\ WF_vars(NextAgent)

-----------------------------------------------------------------------------
(* claims about the agents' handlers *)

\* the handled messages, each with the responses sent for it
HandledMessages == {handled[i] : i \in 1 .. Len(handled)}

\* C37: an agent sends exactly one AgentResponse, to the sender, for every
\* MeetingRequest, NegotiationMessage or TimeProposal it handles, an internal
\* error included, and none for an AgentResponse; so the exchange of the two
\* agents comes to an end with no message left to handle
C37_OneResponsePerMessage ==
    /\ [](\A h \in HandledMessages :
            IF h.message.payload.model = "AgentResponse"
            THEN h.responses = <<>>
            ELSE /\ Len(h.responses) = 1
                 /\ h.responses[1].payload.model = "AgentResponse"
                 /\ h.responses[1].destination = h.message.sender
                 /\ h.responses[1].sender = h.message.destination)
    /\ <>[](mailbox = <<>> /\ Len(handled) <= 2)

\* a proposal that raised an internal error was answered with one error
\* response, which the peer handled without answering
C37_Witness ==
    /\ Len(handled) = 2
    /\ mailbox = <<>>
    /\ handled[1].message.payload.model = "NegotiationMessage"
    /\ handled[1].responses[1].payload.message = "error"
    /\ handled[2].message.payload.model = "AgentResponse"
    /\ handled[2].responses = <<>>

\* the engine's own conflict check of [t, t + duration) over its own calendar
OwnConflicts(t, duration) ==
    check_time_conflicts(t, t + duration, engine_calendar, engine.priority_threshold)

\* C38 (as claimed): a NegotiationMessage of type PROPOSAL whose proposed time
\* has no conflict in the agent's calendar is answered with an acceptance, not
\* with an error response and not with a counter-proposal
C38_ConflictFreeProposalAccepted ==
    \A h \in HandledMessages :
        (/\ h.message.payload.model = "NegotiationMessage"
         /\ h.message.payload.message_type = "proposal"
         /\ h.message.payload.proposed_time # {}
         /\ \A t \in h.message.payload.proposed_time : OwnConflicts(t, default_duration) = {})
        => (/\ Len(h.responses) = 1
            /\ h.responses[1].payload.success
            /\ h.responses[1].payload.message = "accepted")

\* what a handled MeetingRequest asked for, 60 minutes for any other message
ProposedDuration(h) ==
    IF h.message.payload.model = "MeetingRequest" THEN h.message.payload.duration_minutes
    ELSE default_duration

\* C34 (as claimed): every time an agent puts forward in a response, as its
\* proposal for a meeting request (the fallback included) or as its
\* counter-proposal, has no conflict under the engine's own check of its own calendar
C34_OwnProposalsConflictFree ==
    \A h \in HandledMessages :
        \A i \in 1 .. Len(h.responses) :
            \A t \in h.responses[i].payload.proposed_time :
                OwnConflicts(t, ProposedDuration(h)) = {}

\* the offsets of the six around t that are free of conflicts, and the one of
\* smallest magnitude among them, the earlier one on a tie
FreeOffsets(t) == {o \in {-30, 30, -60, 60, -90, 90} : OwnConflicts(t + o, default_duration) = {}}
Magnitude(o) == IF o < 0 THEN -o ELSE o
NearestFreeOffset(t) ==
    CHOOSE o \in FreeOffsets(t) :
        \A other \in FreeOffsets(t) :
            Magnitude(o) < Magnitude(other) \/ (Magnitude(o) = Magnitude(other) /\ o <= other)

\* the handled messages for which generate_counter_proposal was called with a time
CounterProposalCalls ==
    {h \in HandledMessages :
        /\ h.message.payload.proposed_time # {}
        /\ \/ /\ h.message.payload.model = "NegotiationMessage"
              /\ h.message.payload.message_type = "rejection"
           \/ /\ h.message.payload.model = "TimeProposal"
              /\ ~h.responses[1].payload.success}

\* C35 (as claimed): when at least one of the six offsets is free,
\* generate_counter_proposal returns a counter-proposal at the free offset of
\* smallest magnitude, with a confidence score within [0.0, 1.0]
C35_CounterProposalAtNearestFreeOffset ==
    \A h \in CounterProposalCalls :
        \A t \in h.message.payload.proposed_time :
            FreeOffsets(t) # {} =>
                /\ h.responses[1].payload.proposed_time = {t + NearestFreeOffset(t)}
                /\ \A c \in h.responses[1].payload.confidence_score : 0 <= c /\ c <= 100
                /\ h.responses[1].payload.confidence_score # {}

-----------------------------------------------------------------------------
(* Charlie's calendar service: @agent3_charlie/database.py *)

\* a conflict query without the clause for blocks inside the interval
charlie_check_time_conflict_without_inner(user_id, start_time, end_time) ==
    execute_query({b \in calendar_blocks :
                      /\ b.user_id = user_id
                      /\ \/ b.start_time <= start_time /\ b.end_time > start_time
                         \/ b.start_time < end_time /\ b.end_time >= end_time})

\* CharlieCalendarService.check_time_conflict: the rows of user_id that span the
\* start of the interval, span its end, or lie inside it
charlie_check_time_conflict(user_id, start_time, end_time) ==
    execute_query({b \in calendar_blocks :
                      /\ b.user_id = user_id
                      /\ \/ b.start_time <= start_time /\ b.end_time > start_time
                         \/ b.start_time < end_time /\ b.end_time >= end_time
                         \/ b.start_time >= start_time /\ b.end_time <= end_time})

\* at most this many rows in calendar_blocks when Charlie's service is called
MaxCharlieBlocks == 2

\* the half hours from 09:00 to 11:00 of one day
CharlieTimes == {540, 570, 600, 630, 660}

\* the candidate rows: a block of charlie over every interval of these half
\* hours, and a block of bob
CharlieBlockPool ==
    UNION {{Row("charlie", block_start, block_end, "busy", 5, FALSE) :
               block_end \in {t \in CharlieTimes : t > block_start}} :
           block_start \in CharlieTimes}
    \cup {Row("bob", 540, 660, "busy", 5, FALSE)}

\* Charlie's service over a seeded table, not called yet
InitCharlie ==
    /\ calendar_blocks \in Calendars(CharlieBlockPool, MaxCharlieBlocks)
    /\ connection \in BOOLEAN
    /\ meeting_requests = {}
    /\ SearchIdleNeg
    /\ DecideIdleSearch
    /\ IdleDecision
    /\ IdleScore
    /\ IdleAgent
    /\ IdleBroadcast
    /\ IdleCharlie

\* a call of CharlieCalendarService.check_time_conflict for an interval
CharlieCheckTimeConflict ==
    /\ ~conflict_check.called
    /\ \E start_time \in CharlieTimes, end_time \in CharlieTimes :
          /\ start_time < end_time
          /\ conflict_check' = [called |-> TRUE, start_time |-> start_time,
                                end_time |-> end_time,
                                rows |-> charlie_check_time_conflict("charlie", start_time,
                                                                     end_time)]
    /\ UNCHANGED <<mailbox, handled, active_connections, closed_connections, broadcast_call>>
    /\ UNCHANGED dbVars
    /\ UNCHANGED negVars
    /\ UNCHANGED searchVars
    /\ UNCHANGED decVars
    /\ UNCHANGED scoreVars

NextCharlie == CharlieCheckTimeConflict

SpecCharlie == InitCharlie /\ [][NextCharlie]_vars

\* C39: for every interval and every block that ends after it starts, Charlie's
\* three-clause query selects the block exactly when the two-comparison overlap
\* test of CalendarService.check_time_conflict selects it
C39_ThreeClausesAreOverlap ==
    conflict_check.called =>
        conflict_check.rows
            = check_time_conflict("charlie", conflict_check.start_time, conflict_check.end_time)

\* the query for 09:30-10:30 selected a block inside the interval and left out
\* a block that ends where the interval starts
C39_Witness ==
    /\ conflict_check.called
    /\ conflict_check.start_time = 570
    /\ conflict_check.end_time = 630
    /\ calendar_blocks = {Row("charlie", 570, 600, "busy", 5, FALSE),
                          Row("charlie", 540, 570, "busy", 5, FALSE)}
    /\ conflict_check.rows = {Row("charlie", 570, 600, "busy", 5, FALSE)}

-----------------------------------------------------------------------------
(* The WebSocket connection manager: backend_agents/api.py *)

\* at most this many WebSocket objects are ever created
MaxConnections == 3

WebSockets == 1 .. MaxConnections

\* the elements of a list
Elements(list) == {list[i] : i \in 1 .. Len(list)}

\* list.remove(item)
list_remove(list, item) ==
    LET at == CHOOSE i \in 1 .. Len(list) :
                  /\ list[i] = item
                  /\ \A j \in 1 .. (i - 1) : list[j] # item
    IN  SubSeq(list, 1, at - 1) \o SubSeq(list, at + 1, Len(list))

\* manager = ConnectionManager()
InitBroadcast ==
    /\ calendar_blocks = {}
    /\ connection = TRUE
    /\ meeting_requests = {}
    /\ SearchIdleNeg
    /\ DecideIdleSearch
    /\ IdleDecision
    /\ IdleScore
    /\ IdleAgent
    /\ IdleCharlie
    /\ IdleBroadcast

BroadcastUnchanged ==
    /\ UNCHANGED <<mailbox, handled, conflict_check>>
    /\ UNCHANGED dbVars
    /\ UNCHANGED negVars
    /\ UNCHANGED searchVars
    /\ UNCHANGED decVars
    /\ UNCHANGED scoreVars

\* websocket_endpoint accepts a new WebSocket: ConnectionManager.connect
connect(websocket) ==
    /\ websocket \notin Elements(active_connections)
    /\ websocket \notin closed_connections
    /\ active_connections' = Append(active_connections, websocket)
    /\ UNCHANGED <<closed_connections, broadcast_call>>
    /\ BroadcastUnchanged

\* the client of a WebSocket goes away: send_text raises on it from now on
client_closes(websocket) ==
    /\ websocket \in Elements(active_connections)
    /\ websocket \notin closed_connections
    /\ closed_connections' = closed_connections \cup {websocket}
    /\ UNCHANGED <<active_connections, broadcast_call>>
    /\ BroadcastUnchanged

\* websocket_endpoint catches WebSocketDisconnect: ConnectionManager.disconnect
disconnect(websocket) ==
    /\ websocket \in closed_connections
    /\ websocket \in Elements(active_connections)
    /\ active_connections' = list_remove(active_connections, websocket)
    /\ broadcast_call' =
          IF broadcast_call.running
          THEN [broadcast_call EXCEPT !.disconnected = @ \cup {websocket}]
          ELSE broadcast_call
    /\ UNCHANGED closed_connections
    /\ BroadcastUnchanged

\* the for loop of broadcast takes the next element of the list: the element at
\* the iterator's index, in the list as it is now; past the end the loop ends
for_connection(call, list) ==
    IF call.index < Len(list)
    THEN [call EXCEPT !.running = TRUE,
                      !.current = list[call.index + 1],
                      !.index = @ + 1,
                      !.sent_to = Append(@, list[call.index + 1])]
    ELSE [call EXCEPT !.running = FALSE, !.current = 0]

\* ConnectionManager.broadcast is called: the loop takes its first element and
\* awaits send_text on it, or returns at once over an empty list
broadcast ==
    /\ ~broadcast_call.running
    /\ broadcast_call' =
          for_connection([called |-> TRUE, running |-> FALSE, index |-> 0, current |-> 0,
                          connections |-> active_connections, sent_to |-> <<>>,
                          disconnected |-> {}],
                         active_connections)
    /\ UNCHANGED <<active_connections, closed_connections>>
    /\ BroadcastUnchanged

\* the awaited send_text of broadcast completes: if it raised, the connection
\* is removed from the list (a remove of a connection the endpoint has already
\* removed raises out of broadcast); then the loop takes its next element
broadcast_iteration ==
    /\ broadcast_call.running
    /\ \E failed \in {broadcast_call.current \in closed_connections} :
          IF failed /\ broadcast_call.current \notin Elements(active_connections)
          THEN /\ broadcast_call' = [broadcast_call EXCEPT !.running = FALSE, !.current = 0]
               /\ UNCHANGED active_connections
          ELSE /\ active_connections' =
                     IF failed
                     THEN list_remove(active_connections, broadcast_call.current)
                     ELSE active_connections
               /\ broadcast_call' = for_connection(broadcast_call, active_connections')
    /\ UNCHANGED closed_connections
    /\ BroadcastUnchanged

NextBroadcast ==
    \/ \E websocket \in WebSockets : connect(websocket)
    \/ \E websocket \in WebSockets : client_closes(websocket)
    \/ \E websocket \in WebSockets : disconnect(websocket)
    \/ broadcast
    \/ broadcast_iteration

SpecBroadcast == InitBroadcast /\ [][NextBroadcast]_vars

\* C40 (as claimed): when a broadcast has returned, a send was attempted to
\* every connection that was active when it started (unless the endpoint
\* disconnected it meanwhile), and every such connection whose send does not
\* fail is still in active_connections
C40_BroadcastReachesEveryConnection ==
    (broadcast_call.called /\ ~broadcast_call.running) =>
        \A websocket \in Elements(broadcast_call.connections) :
            /\ \/ websocket \in Elements(broadcast_call.sent_to)
               \/ websocket \in broadcast_call.disconnected
            /\ websocket \notin closed_connections
                  => websocket \in Elements(active_connections)

====
